---- MODULE Spec2Model ----
(***************************************************************************)
(* ChordPro -> FreeShow conversion (chordpro2freeshow).                    *)
(*                                                                         *)
(* Text is modelled as a sequence of characters; a character is a          *)
(* one-element string, except the three non-ASCII characters the code      *)
(* names, which are the tokens NBSP, LGUIL and RGUIL.  Python's None is    *)
(* the empty tuple and a present optional value x is <<x>>.                *)
(* hashlib.md5 is modelled as an injective function of the message: the    *)
(* digest of a message is the message itself.                              *)
(***************************************************************************)
EXTENDS Integers, Sequences, FiniteSets, TLC

VARIABLES
    pc,                       \* position of the run
    nread,                    \* number of lines of the document scanned so far
    metadata,                 \* parse_file: metadata (directive map)
    sections,                 \* parse_file: sections emitted so far
    current_section_label,    \* parse_file: pending label (optional)
    current_section_content,  \* parse_file: content of the open section
    current_section_info,     \* parse_file: info of the open section (optional)
    in_section,               \* parse_file: a section is open
    deduplicate,              \* config.deduplicate_sections of the build
    unique_sections,          \* generate_freeshow_file / deduplicate_sections
    index_map,                \* generate_freeshow_file / deduplicate_sections
    unique_slide_ids,         \* generate_freeshow_file
    slides,                   \* generate_freeshow_file: slide id -> slide
    layout_slides,            \* generate_freeshow_file: ids in layout order
    show,                     \* generate_freeshow_file: ids and meta of the show
    files,                    \* process_files_batch: files
    max_workers,              \* process_files_batch: max_workers
    task,                     \* process_files_batch: state of each file's
                              \* process_single_file call
    collected,                \* process_files_batch: calls whose result the
                              \* main thread has taken
    processed_files,          \* process_files_batch: processed_files
    failed_files,             \* process_files_batch: failed_files
    net_op,                   \* OnlineResourceManager: the running operation
    max_retries,              \* config.max_retries
    attempt,                  \* OnlineResourceManager: the loop variable
    net_log,                  \* OnlineResourceManager: the requests made and
                              \* the waits, in order
    net_result,               \* OnlineResourceManager: the value returned
    input,                    \* argument of the function under study
    output                    \* its result

vars == <<pc, nread, metadata, sections, current_section_label,
          current_section_content, current_section_info, in_section,
          deduplicate, unique_sections, index_map, unique_slide_ids, slides,
          layout_slides, show, files, max_workers, task, collected,
          processed_files, failed_files, net_op, max_retries, attempt,
          net_log, net_result, input, output>>

parserVars == <<metadata, sections, current_section_label,
                current_section_content, current_section_info, in_section>>

deckVars == <<deduplicate, unique_sections, index_map, unique_slide_ids,
              slides, layout_slides, show>>

batchVars == <<files, max_workers, task, collected, processed_files,
               failed_files>>

netVars == <<net_op, max_retries, attempt, net_log, net_result>>

(***************************************************************************)
(* Bounds                                                                  *)
(***************************************************************************)
MaxLines == 4        \* lines of a document
MaxSections == 3     \* sections of a section list
MaxShortContent == 1 \* content lines of a section of a section list
MaxContent == 3      \* content lines of a section of a pair of sections
MaxTokens == 4       \* tokens a chord line is made of
MaxTextLen == 5      \* characters of a text given to the normalizer
MaxFiles == 3        \* files of a batch
MaxWorkers == 3      \* max_workers of a batch
MaxNameLen == 4      \* characters of a file name given to sanitize_filename

(***************************************************************************)
(* Characters and strings                                                  *)
(***************************************************************************)
None == <<>>
Some(x) == <<x>>

NBSP == "NBSP"
LGUIL == "LGUIL"
RGUIL == "RGUIL"

LowerLetters ==
    <<"a","b","c","d","e","f","g","h","i","j","k","l","m",
      "n","o","p","q","r","s","t","u","v","w","x","y","z">>
UpperLetters ==
    <<"A","B","C","D","E","F","G","H","I","J","K","L","M",
      "N","O","P","Q","R","S","T","U","V","W","X","Y","Z">>
DigitChars == <<"0","1","2","3","4","5","6","7","8","9">>
AccentedLetters ==
    {"e_acute","e_grave","e_circ","a_grave","a_circ","u_grave","u_circ"}

Range(f) == {f[i] : i \in DOMAIN f}

IsLower(c) == c \in Range(LowerLetters)
IsUpper(c) == c \in Range(UpperLetters)
IsAsciiLetter(c) == IsLower(c) \/ IsUpper(c)
IsDigit(c) == c \in Range(DigitChars)
\* variant: white space as the ASCII-only \s sees it, without U+00A0
Whitespace_ascii == {" ", "\t"}
\* Python's \s and str.strip() on str: Unicode white space, U+00A0 included
Whitespace == {" ", "\t", NBSP}
IsSpace(c) == c \in Whitespace

ToLower(c) ==
    IF IsUpper(c)
    THEN LowerLetters[CHOOSE i \in 1..26 : UpperLetters[i] = c]
    ELSE c
ToUpper(c) ==
    IF IsLower(c)
    THEN UpperLetters[CHOOSE i \in 1..26 : LowerLetters[i] = c]
    ELSE c

\* variant: the label is not lower-cased
Lower_identity(s) == s
Lower(s) == [i \in 1..Len(s) |-> ToLower(s[i])]
\* str.title(): a cased letter is upper-cased after an uncased character
Title(s) ==
    [i \in 1..Len(s) |->
        IF i > 1 /\ (IsAsciiLetter(s[i-1]) \/ s[i-1] \in AccentedLetters)
        THEN ToLower(s[i]) ELSE ToUpper(s[i])]

RECURSIVE LStrip(_)
LStrip(s) == IF s # <<>> /\ IsSpace(Head(s)) THEN LStrip(Tail(s)) ELSE s
RECURSIVE RStrip(_)
RStrip(s) ==
    IF s # <<>> /\ IsSpace(s[Len(s)])
    THEN RStrip(SubSeq(s, 1, Len(s) - 1)) ELSE s
Strip(s) == RStrip(LStrip(s))

StartsWith(s, p) == Len(s) >= Len(p) /\ SubSeq(s, 1, Len(p)) = p
\* Python: needle in hay
Contains(hay, needle) ==
    \E i \in 0..(Len(hay) - Len(needle)) :
        SubSeq(hay, i + 1, i + Len(needle)) = needle

\* Python: sep.join(parts)
RECURSIVE Join(_, _)
Join(parts, sep) ==
    IF parts = <<>> THEN <<>>
    ELSE IF Len(parts) = 1 THEN parts[1]
    ELSE parts[1] \o sep \o Join(Tail(parts), sep)

\* Python: str(n) of a natural number
RECURSIVE IntToStr(_)
IntToStr(n) ==
    IF n < 10 THEN <<DigitChars[n + 1]>>
    ELSE IntToStr(n \div 10) \o <<DigitChars[(n % 10) + 1]>>

\* hashlib.md5(message).hexdigest(): injective on the message
Md5(message) == message

\* length of the longest run of characters of s from index i on that are in cls
RECURSIVE RunLen(_, _, _)
RunLen(s, i, cls) ==
    IF i <= Len(s) /\ s[i] \in cls THEN 1 + RunLen(s, i + 1, cls) ELSE 0

Chars(s) == Range(s)

(***************************************************************************)
(* config.ProcessorConfig                                                  *)
(***************************************************************************)
T_chorus == <<"c","h","o","r","u","s">>
T_verse == <<"v","e","r","s","e">>
T_bridge == <<"b","r","i","d","g","e">>
T_intro == <<"i","n","t","r","o">>
T_outro == <<"o","u","t","r","o">>
T_pre_chorus == <<"p","r","e","_","c","h","o","r","u","s">>
T_tag == <<"t","a","g">>

\* label_to_type_map, in insertion order
label_to_type_map ==
    << <<(<<"r","e","f","r","a","i","n">>), T_chorus>>,
       <<T_chorus, T_chorus>>,
       <<(<<"s","t","r","o","p","h","e">>), T_verse>>,
       <<T_verse, T_verse>>,
       <<(<<"p","o","n","t">>), T_bridge>>,
       <<T_bridge, T_bridge>>,
       <<(<<"i","n","t","r","o","d","u","c","t","i","o","n">>), T_intro>>,
       <<T_intro, T_intro>>,
       <<(<<"f","i","n">>), T_outro>>,
       <<T_outro, T_outro>> >>

section_colors ==
    << <<T_verse, "">>, <<T_chorus, "#f525d2">>, <<T_bridge, "#f52598">>,
       <<T_pre_chorus, "#25d2f5">>, <<T_tag, "#f5d225">>,
       <<T_intro, "">>, <<T_outro, "">> >>

global_groups ==
    << <<T_verse, "verse">>, <<T_chorus, "chorus">>, <<T_bridge, "bridge">>,
       <<T_pre_chorus, "pre_chorus">>, <<T_tag, "tag">>,
       <<T_intro, "intro">>, <<T_outro, "outro">> >>

\* dict.get(key, default) on a table of <<key, value>> pairs
TableHas(table, key) == \E i \in DOMAIN table : table[i][1] = key
TableGet(table, key, default) ==
    IF TableHas(table, key)
    THEN table[CHOOSE i \in DOMAIN table : table[i][1] = key][2]
    ELSE default

(***************************************************************************)
(* parsers.ChordProParser._parse_section_info                              *)
(***************************************************************************)
Min(S) == CHOOSE x \in S : \A y \in S : x <= y
Max(S) == CHOOSE x \in S : \A y \in S : y <= x

LabelClass ==
    Range(LowerLetters) \cup Range(UpperLetters) \cup AccentedLetters
        \cup Whitespace

\* the ways r'([a-zA-Z...\s]+)\s*(\d+|[a-zA-Z])$' cuts s from its start:
\* <<k, j>> is k characters of group 1, then j of \s*, then group 2 to the end
LabelCuts(s) ==
    {c \in (1..Len(s)) \X (0..Len(s)) :
        /\ c[1] <= RunLen(s, 1, LabelClass)
        /\ c[2] <= RunLen(s, c[1] + 1, Whitespace)
        /\ LET rest == SubSeq(s, c[1] + c[2] + 1, Len(s))
           IN  /\ rest # <<>>
               /\ \/ \A i \in 1..Len(rest) : IsDigit(rest[i])
                  \/ Len(rest) = 1 /\ IsAsciiLetter(rest[1])}

\* re.match of that pattern: greedy, so the longest group 1 that lets the rest
\* match, then the longest \s*
LabelMatch(s) ==
    IF LabelCuts(s) = {} THEN None
    ELSE LET c == CHOOSE c \in LabelCuts(s) :
                     \A d \in LabelCuts(s) :
                         d[1] < c[1] \/ (d[1] = c[1] /\ d[2] <= c[2])
         IN  Some([group1 |-> SubSeq(s, 1, c[1]),
                   group2 |-> SubSeq(s, c[1] + c[2] + 1, Len(s))])

\* the loop over label_to_type_map.items(): first key contained in type_part
LookupType(type_part, block_type) ==
    LET hits == {i \in DOMAIN label_to_type_map :
                    Contains(type_part, label_to_type_map[i][1])}
    IN  IF hits = {} THEN block_type ELSE label_to_type_map[Min(hits)][2]

parse_section_info(block_type, label) ==
    IF label # None /\ label[1] # <<>>
    THEN LET label_lower == Lower(label[1])
             match == LabelMatch(label_lower)
             type_part == IF match # None THEN Strip(match[1].group1)
                          ELSE label_lower
             section_number == IF match # None THEN Some(match[1].group2)
                               ELSE None
         IN  [name |-> label[1],
              type |-> LookupType(type_part, block_type),
              number |-> section_number]
    ELSE [name |-> Title(block_type), type |-> block_type, number |-> None]

(***************************************************************************)
(* parsers.ChordProParser._create_section and parse_file                   *)
(***************************************************************************)
NL == "\n"

create_section(section_info, content) ==
    [name |-> section_info.name,
     type |-> section_info.type,
     number |-> section_info.number,
     content |-> content,
     raw_content |-> Join(content, <<NL>>)]

P_comment == <<"{","c",":">>
P_start == <<"{","s","t","a","r","t","_","o","f","_">>
P_end == <<"{","e","n","d","_","o","f","_">>

\* Python: s[a:-1] for a >= 0
SliceToLast(s, a) == SubSeq(s, a + 1, Len(s) - 1)

\* re.match(r'\{([^:]+)(?::(.*))?\}', s); group 2 is optional
DirectiveMatch(s) ==
    IF s = <<>> \/ s[1] # "{" THEN None
    ELSE LET m == RunLen(s, 2, Chars(s) \ {":"})
             closing == {e \in (3 + m)..Len(s) : s[e] = "}"}
             short == {k \in 1..m : 2 + k <= Len(s) /\ s[2 + k] = "}"}
         IN  IF m >= 1 /\ 2 + m <= Len(s) /\ s[2 + m] = ":" /\ closing # {}
             THEN Some([group1 |-> SubSeq(s, 2, 1 + m),
                        group2 |-> Some(SubSeq(s, 3 + m, Max(closing) - 1))])
             ELSE IF short # {}
             THEN Some([group1 |-> SubSeq(s, 2, 1 + Max(short)),
                        group2 |-> None])
             ELSE None

\* variant: a key that is already set keeps its value
DictSet_keep_first(d, key, value) ==
    [k \in DOMAIN d \cup {key} |-> IF k \in DOMAIN d THEN d[k] ELSE value]

\* metadata[key] = value
DictSet(d, key, value) ==
    [k \in DOMAIN d \cup {key} |-> IF k = key THEN value ELSE d[k]]
DictGet(d, key, default) == IF key \in DOMAIN d THEN d[key] ELSE default
EmptyDict == [k \in {} |-> <<>>]

\* one iteration of the loop over the lines, on the record st of the locals
ParseLine(st, line) ==
    LET stripped_line == Strip(line)
    IN  IF StartsWith(stripped_line, P_comment)
        THEN [st EXCEPT
                !.current_section_label =
                    Some(Strip(SliceToLast(stripped_line, 3))),
                !.current_section_content =
                    IF st.in_section THEN Append(@, line) ELSE @]
        ELSE IF StartsWith(stripped_line, P_start)
        THEN [st EXCEPT
                !.sections =
                    IF st.in_section /\ st.current_section_info # None
                    THEN Append(@, create_section(st.current_section_info[1],
                                                  st.current_section_content))
                    ELSE @,
                !.in_section = TRUE,
                !.current_section_info =
                    Some(parse_section_info(
                            Strip(SliceToLast(stripped_line, 10)),
                            st.current_section_label)),
                !.current_section_label = None,
                !.current_section_content = <<>>]
        ELSE IF StartsWith(stripped_line, P_end)
        THEN IF st.in_section /\ st.current_section_info # None
             THEN [st EXCEPT
                     !.sections =
                        Append(@, create_section(st.current_section_info[1],
                                                 st.current_section_content)),
                     !.in_section = FALSE,
                     !.current_section_info = None,
                     !.current_section_content = <<>>]
             ELSE st
        ELSE IF StartsWith(stripped_line, <<"{">>)
        THEN LET directive_match == DirectiveMatch(stripped_line)
             IN  [st EXCEPT
                    !.metadata =
                        IF directive_match # None
                        THEN DictSet(@, Strip(directive_match[1].group1),
                                IF directive_match[1].group2 # None
                                THEN Strip(directive_match[1].group2[1])
                                ELSE <<>>)
                        ELSE @,
                    !.current_section_content =
                        IF st.in_section THEN Append(@, line) ELSE @]
        ELSE IF st.in_section
        THEN [st EXCEPT !.current_section_content = Append(@, line)]
        ELSE st

\* the locals of parse_file before the loop
ParseStart ==
    [metadata |-> EmptyDict, sections |-> <<>>,
     current_section_label |-> None, current_section_content |-> <<>>,
     current_section_info |-> None, in_section |-> FALSE]

\* parse_file on a list of lines
RECURSIVE ParseLines(_, _)
ParseLines(st, lines) ==
    IF lines = <<>> THEN st ELSE ParseLines(ParseLine(st, Head(lines)), Tail(lines))
parse_file(lines) ==
    LET st == ParseLines(ParseStart, lines)
    IN  [metadata |-> st.metadata, sections |-> st.sections]

(***************************************************************************)
(* models.ChordProSection.get_content_hash and                             *)
(* parsers.ChordProParser.deduplicate_sections                             *)
(***************************************************************************)
IsCommentLine(line) == StartsWith(Strip(line), P_comment)

content_lines(section) ==
    SelectSeq(section.content, LAMBDA line : ~IsCommentLine(line))

\* variant: the hash covers the comment-label lines too
get_content_hash_raw(section) == Md5(Join(section.content, <<NL>>))

get_content_hash(section) == Md5(Join(content_lines(section), <<NL>>))

\* variant: a duplicate gets no entry in the index map
RECURSIVE DedupLoop_no_append(_, _, _, _)
DedupLoop_no_append(rest, unique, section_map, imap) ==
    IF rest = <<>>
    THEN [unique_sections |-> unique, index_map |-> imap]
    ELSE LET section == Head(rest)
             content_hash == get_content_hash(section)
         IN  IF content_hash \in DOMAIN section_map
             THEN DedupLoop_no_append(Tail(rest), unique, section_map, imap)
             ELSE DedupLoop_no_append(Tail(rest), Append(unique, section),
                            DictSet(section_map, content_hash, Len(unique)),
                            Append(imap, Len(unique)))

\* variant: a duplicate gets the index of the latest unique section
RECURSIVE DedupLoop_last_index(_, _, _, _)
DedupLoop_last_index(rest, unique, section_map, imap) ==
    IF rest = <<>>
    THEN [unique_sections |-> unique, index_map |-> imap]
    ELSE LET section == Head(rest)
             content_hash == get_content_hash(section)
         IN  IF content_hash \in DOMAIN section_map
             THEN DedupLoop_last_index(Tail(rest), unique, section_map,
                            Append(imap, Len(unique) - 1))
             ELSE DedupLoop_last_index(Tail(rest), Append(unique, section),
                            DictSet(section_map, content_hash, Len(unique)),
                            Append(imap, Len(unique)))

\* variant: a duplicate replaces the section kept for its hash
RECURSIVE DedupLoop_keep_last(_, _, _, _)
DedupLoop_keep_last(rest, unique, section_map, imap) ==
    IF rest = <<>>
    THEN [unique_sections |-> unique, index_map |-> imap]
    ELSE LET section == Head(rest)
             content_hash == get_content_hash(section)
         IN  IF content_hash \in DOMAIN section_map
             THEN DedupLoop_keep_last(Tail(rest),
                            [unique EXCEPT
                                ![section_map[content_hash] + 1] = section],
                            section_map,
                            Append(imap, section_map[content_hash]))
             ELSE DedupLoop_keep_last(Tail(rest), Append(unique, section),
                            DictSet(section_map, content_hash, Len(unique)),
                            Append(imap, Len(unique)))

\* the loop of deduplicate_sections; unique indices are 0-based as in the code
RECURSIVE DedupLoop(_, _, _, _)
DedupLoop(rest, unique, section_map, imap) ==
    IF rest = <<>>
    THEN [unique_sections |-> unique, index_map |-> imap]
    ELSE LET section == Head(rest)
             content_hash == get_content_hash(section)
         IN  IF content_hash \in DOMAIN section_map
             THEN DedupLoop(Tail(rest), unique, section_map,
                            Append(imap, section_map[content_hash]))
             ELSE DedupLoop(Tail(rest), Append(unique, section),
                            DictSet(section_map, content_hash, Len(unique)),
                            Append(imap, Len(unique)))

deduplicate_sections(secs) == DedupLoop(secs, <<>>, EmptyDict, <<>>)

(***************************************************************************)
(* parsers.ChordProParser.parse_chord_line                                 *)
(***************************************************************************)
\* variant: the pattern r'\[(.+)\]', whose group runs to the last "]"
RECURSIVE FindIter_greedy(_, _)
FindIter_greedy(s, from) ==
    IF from > Len(s) THEN <<>>
    ELSE IF /\ s[from] = "["
            /\ \E j \in (from + 2)..Len(s) : s[j] = "]"
    THEN LET j == Max({j \in (from + 2)..Len(s) : s[j] = "]"})
         IN  <<[start |-> from - 1,
                group1 |-> SubSeq(s, from + 1, j - 1),
                last |-> j]>> \o FindIter_greedy(s, j + 1)
    ELSE FindIter_greedy(s, from + 1)

\* list(chord_pattern.finditer(line)) for r'\[([^\]]+)\]', scanning from the
\* 1-based index from; start is the 0-based match.start(), last the 1-based
\* index of the closing bracket
RECURSIVE FindIter(_, _)
FindIter(s, from) ==
    IF from > Len(s) THEN <<>>
    ELSE IF /\ s[from] = "["
            /\ from + 1 <= Len(s)
            /\ s[from + 1] # "]"
            /\ \E j \in (from + 2)..Len(s) : s[j] = "]"
    THEN LET j == Min({j \in (from + 2)..Len(s) : s[j] = "]"})
         IN  <<[start |-> from - 1,
                group1 |-> SubSeq(s, from + 1, j - 1),
                last |-> j]>> \o FindIter(s, j + 1)
    ELSE FindIter(s, from + 1)

\* chord_pattern.sub('', line)
RemoveChords(line) ==
    LET ms == FindIter(line, 1)
        keep == {p \in 1..Len(line) :
                    \A k \in 1..Len(ms) : p <= ms[k].start \/ p > ms[k].last}
        RECURSIVE Pick(_)
        Pick(p) == IF p > Len(line) THEN <<>>
                   ELSE (IF p \in keep THEN <<line[p]>> ELSE <<>>) \o Pick(p + 1)
    IN  Pick(1)

\* variant: the pattern r'^\d+\.', which leaves the white space
RemoveLeadingNumber_nospace(text) ==
    LET d == RunLen(text, 1, Range(DigitChars))
    IN  IF d >= 1 /\ d + 1 <= Len(text) /\ text[d + 1] = "."
        THEN SubSeq(text, d + 2, Len(text))
        ELSE text

\* re.sub(r'^\d+\.\s*', '', text)
RemoveLeadingNumber(text) ==
    LET d == RunLen(text, 1, Range(DigitChars))
    IN  IF d >= 1 /\ d + 1 <= Len(text) /\ text[d + 1] = "."
        THEN SubSeq(text, d + 2 + RunLen(text, d + 2, Whitespace), Len(text))
        ELSE text

\* variant: the sum runs over chord_matches[:i + 1], the match itself included
RECURSIVE PrevBracketLen_through_current(_, _)
PrevBracketLen_through_current(ms, i) ==
    IF i + 1 > Len(ms) THEN 0
    ELSE LET RECURSIVE Sum(_)
             Sum(k) == IF k = 0 THEN 0
                       ELSE Sum(k - 1) + Len(ms[k].group1) + 2
         IN  Sum(i + 1)

\* sum of len(f"[{prev_match.group(1)}]") over chord_matches[:i]
RECURSIVE PrevBracketLen(_, _)
PrevBracketLen(ms, i) ==
    IF i = 0 THEN 0
    ELSE PrevBracketLen(ms, i - 1) + Len(<<"[">> \o ms[i].group1 \o <<"]">>)

ChordPosition(ms, i) ==
    LET chord == ms[i].group1
        original_pos == ms[i].start
        adjusted_pos == original_pos - PrevBracketLen(ms, i - 1)
    IN  [id |-> Md5(chord \o IntToStr(original_pos)),
         pos |-> IF adjusted_pos > 0 THEN adjusted_pos ELSE 0,
         key |-> chord]

parse_chord_line(line) ==
    LET chord_matches == FindIter(line, 1)
    IN  [text |-> RemoveLeadingNumber(RemoveChords(line)),
         chords |-> [i \in 1..Len(chord_matches) |->
                        ChordPosition(chord_matches, i)]]

(***************************************************************************)
(* utils.FrenchPunctuationHandler                                          *)
(***************************************************************************)
DoubleMarks == {";", ":", "!", "?", RGUIL}

\* variant: the pattern r'\s+([;:!?»])', which needs white space before a mark
RECURSIVE SubDoublePunct_plus(_, _)
SubDoublePunct_plus(s, i) ==
    IF i > Len(s) THEN <<>>
    ELSE LET w == RunLen(s, i, Whitespace)
         IN  IF w >= 1 /\ i + w <= Len(s) /\ s[i + w] \in DoubleMarks
             THEN <<NBSP, s[i + w]>> \o SubDoublePunct_plus(s, i + w + 1)
             ELSE <<s[i]>> \o SubDoublePunct_plus(s, i + 1)

\* DOUBLE_PUNCT_PATTERN.sub(NBSP + r'\1', s), scanning from index i
RECURSIVE SubDoublePunct(_, _)
SubDoublePunct(s, i) ==
    IF i > Len(s) THEN <<>>
    ELSE LET w == RunLen(s, i, Whitespace)
         IN  IF i + w <= Len(s) /\ s[i + w] \in DoubleMarks
             THEN <<NBSP, s[i + w]>> \o SubDoublePunct(s, i + w + 1)
             ELSE <<s[i]>> \o SubDoublePunct(s, i + 1)

\* OPENING_GUILLEMETS_PATTERN.sub(r'\1' + NBSP, s), scanning from index i
RECURSIVE SubOpeningGuillemets(_, _)
SubOpeningGuillemets(s, i) ==
    IF i > Len(s) THEN <<>>
    ELSE IF s[i] = LGUIL
    THEN <<LGUIL, NBSP>>
            \o SubOpeningGuillemets(s, i + 1 + RunLen(s, i + 1, Whitespace))
    ELSE <<s[i]>> \o SubOpeningGuillemets(s, i + 1)

\* on a str
fix_french_punctuation(text) ==
    IF text = <<>> THEN text
    ELSE SubOpeningGuillemets(SubDoublePunct(text, 1), 1)

\* on any value: [str |-> text] is a str, anything else is returned as is
fix_french_punctuation_any(value) ==
    IF "str" \notin DOMAIN value THEN value
    ELSE [str |-> fix_french_punctuation(value.str)]

(***************************************************************************)
(* processor.ChordProProcessor                                             *)
(***************************************************************************)
\* variant: every line that starts with a brace is skipped
RECURSIVE SlideLines_skip_braces(_)
SlideLines_skip_braces(content) ==
    IF content = <<>> THEN <<>>
    ELSE LET line == Head(content)
         IN  IF StartsWith(Strip(line), <<"{">>)
             THEN SlideLines_skip_braces(Tail(content))
             ELSE IF Strip(line) # <<>>
             THEN LET parsed_line == parse_chord_line(line)
                  IN  <<[text |-> fix_french_punctuation(parsed_line.text),
                         chords |-> parsed_line.chords]>>
                         \o SlideLines_skip_braces(Tail(content))
             ELSE SlideLines_skip_braces(Tail(content))

\* the loop of _create_freeshow_slide over section.content
RECURSIVE SlideLines(_)
SlideLines(content) ==
    IF content = <<>> THEN <<>>
    ELSE LET line == Head(content)
         IN  IF IsCommentLine(line) THEN SlideLines(Tail(content))
             ELSE IF Strip(line) # <<>>
             THEN LET parsed_line == parse_chord_line(line)
                  IN  <<[text |-> fix_french_punctuation(parsed_line.text),
                         chords |-> parsed_line.chords]>>
                         \o SlideLines(Tail(content))
             ELSE SlideLines(Tail(content))

create_freeshow_slide(section, slide_id) ==
    [group |-> section.name,
     color |-> TableGet(section_colors, section.type, ""),
     globalGroup |-> IF TableHas(global_groups, section.type)
                     THEN Some(TableGet(global_groups, section.type, ""))
                     ELSE None,
     lines |-> SlideLines(section.content)]

\* variant: the position is left out of the hashed string
SlideId_no_index(section, i) == Md5(section.type \o section.raw_content)

\* hashlib.md5(f"{section.type}{i}{section.raw_content}") for the 0-based i
SlideId(section, i) == Md5(section.type \o IntToStr(i) \o section.raw_content)

\* the slides dict after the loop over unique_sections: a later section
\* overwrites the slide of an earlier one that has the same id
BuildSlides(unique, ids) ==
    [id \in Range(ids) |->
        create_freeshow_slide(
            unique[Max({i \in 1..Len(unique) : ids[i] = id})], id)]

K_number == <<"n","u","m","b","e","r">>
K_title == <<"t","i","t","l","e">>
K_lyricist == <<"l","y","r","i","c","i","s","t">>
K_composer == <<"c","o","m","p","o","s","e","r">>
K_copyright == <<"c","o","p","y","r","i","g","h","t">>
K_year == <<"y","e","a","r">>
K_key == <<"k","e","y">>

\* Path(filepath).stem of the document
FileName == <<"j","e","m","0","0","1">>

\* Python: text.split('\n')
RECURSIVE Split(_, _)
Split(text, sep) ==
    IF \A i \in 1..Len(text) : text[i] # sep THEN <<text>>
    ELSE LET i == Min({j \in 1..Len(text) : text[j] = sep})
         IN  <<SubSeq(text, 1, i - 1)>>
                \o Split(SubSeq(text, i + 1, Len(text)), sep)

\* utils.extract_year_from_copyright: re.search(r'(\d{4})', text)
extract_year_from_copyright(copyright_text) ==
    LET at == {i \in 1..(Len(copyright_text) - 3) :
                  \A j \in i..(i + 3) : IsDigit(copyright_text[j])}
    IN  IF at = {} THEN None
        ELSE Some(SubSeq(copyright_text, Min(at), Min(at) + 3))

\* f"{{<key>: <value>}}"
DirectiveLine(key, value) == <<"{">> \o key \o <<":", " ">> \o value \o <<"}">>

\* the metadata headers enhance_chordpro writes for a csv record (None: the
\* song is not in the csv file)
EnhanceHeaders(csv_metadata) ==
    IF csv_metadata = None THEN <<>>
    ELSE LET m == csv_metadata[1]
             year == extract_year_from_copyright(m.copyright)
         IN  <<DirectiveLine(K_number, m.number),
               DirectiveLine(K_title, fix_french_punctuation(m.title))>>
             \o (IF m.author # <<>>
                 THEN <<DirectiveLine(K_lyricist,
                                      fix_french_punctuation(m.author))>>
                 ELSE <<>>)
             \o (IF m.composer # <<>>
                 THEN <<DirectiveLine(K_composer,
                                      fix_french_punctuation(m.composer))>>
                 ELSE <<>>)
             \o (IF m.copyright # <<>>
                 THEN <<DirectiveLine(K_copyright,
                                      fix_french_punctuation(m.copyright))>>
                      \o (IF year # None
                          THEN <<DirectiveLine(K_year, year[1])>> ELSE <<>>)
                 ELSE <<>>)

\* the lines enhance_chordpro writes for the sections
RECURSIVE EnhanceSections(_)
EnhanceSections(secs) ==
    IF secs = <<>> THEN <<>>
    ELSE LET section == Head(secs)
         IN  <<P_start \o section.type \o <<"}">>>>
             \o [i \in 1..Len(section.content) |->
                    IF ~StartsWith(Strip(section.content[i]), <<"{">>)
                    THEN fix_french_punctuation(section.content[i])
                    ELSE section.content[i]]
             \o <<P_end \o section.type \o <<"}">>, <<>>>>
             \o EnhanceSections(Tail(secs))

\* the text enhance_chordpro writes to the enhanced file
enhance_chordpro(file_metadata, secs, csv_metadata) ==
    LET output_lines ==
            EnhanceHeaders(csv_metadata)
            \o (IF K_key \in DOMAIN file_metadata
                THEN <<DirectiveLine(K_key, file_metadata[K_key])>> ELSE <<>>)
            \o << <<>> >>
            \o EnhanceSections(secs)
    IN  Join(output_lines, <<NL>>)

\* Path(enhanced_path).stem
EnhancedFileName == FileName \o <<"-","e","n","h","a","n","c","e","d">>

\* variant: the show id is derived from the time of the build
BuildShow_timed_id(file_metadata, filename, current_time) ==
    [show_id |-> Md5(filename \o IntToStr(current_time)),
     layout_id |-> Md5(<<"l","a","y","o","u","t">> \o filename),
     name |-> DictGet(file_metadata, K_title, filename),
     timestamps |-> [created |-> current_time, modified |-> current_time,
                     used |-> None],
     meta |-> [number |-> DictGet(file_metadata, K_number, <<>>)]]

\* show_id, layout_id, name, timestamps and meta of freeshow_data
BuildShow(file_metadata, filename, current_time) ==
    LET title == fix_french_punctuation(DictGet(file_metadata, K_title, filename))
        author == fix_french_punctuation(DictGet(file_metadata, K_lyricist, <<>>))
    IN  [show_id |-> Md5(filename),
         layout_id |-> Md5(<<"l","a","y","o","u","t">> \o filename),
         name |-> title,
         timestamps |-> [created |-> current_time, modified |-> current_time,
                         used |-> None],
         meta |-> [number |-> DictGet(file_metadata, K_number, <<>>),
                   title |-> title,
                   artist |-> author,
                   author |-> author,
                   composer |-> fix_french_punctuation(
                                    DictGet(file_metadata, K_composer, <<>>)),
                   copyright |-> fix_french_punctuation(
                                    DictGet(file_metadata, K_copyright, <<>>)),
                   year |-> DictGet(file_metadata, K_year, <<>>),
                   key |-> DictGet(file_metadata, K_key, <<>>)]]

(***************************************************************************)
(* Documents: the lines a document is made of                              *)
(***************************************************************************)
Ln_label == <<"{","c",":"," ","R","e","f","r","a","i","n"," ","2","}">>
Ln_start_verse ==
    <<"{","s","t","a","r","t","_","o","f","_","v","e","r","s","e","}">>
Ln_start_verse1 ==
    <<"{","s","t","a","r","t","_","o","f","_","v","e","r","s","e","1","}">>
Ln_end == <<"{","e","n","d","_","o","f","_","v","e","r","s","e","}">>
Ln_key == <<"{","k","e","y",":"," ","C","}">>
Ln_bad == <<"{",":","x">>
Ln_chords == <<"[","C","]","a"," ","!">>
Ln_zero == <<"0">>
Ln_blank == <<>>

DocLines ==
    {Ln_label, Ln_start_verse, Ln_start_verse1, Ln_end, Ln_key, Ln_bad,
     Ln_chords, Ln_zero, Ln_blank}

\* all sequences over S of length at most n
SeqsUpTo(S, n) == UNION {[1..k -> S] : k \in 0..n}

(***************************************************************************)
(* Specification Spec: one document is scanned line by line by parse_file, *)
(* then generate_freeshow_file builds the show from what the parser        *)
(* returned.                                                               *)
(***************************************************************************)
InitParser ==
    /\ metadata = ParseStart.metadata
    /\ sections = ParseStart.sections
    /\ current_section_label = ParseStart.current_section_label
    /\ current_section_content = ParseStart.current_section_content
    /\ current_section_info = ParseStart.current_section_info
    /\ in_section = ParseStart.in_section

InitDeck ==
    /\ deduplicate = TRUE
    /\ unique_sections = <<>>
    /\ index_map = <<>>
    /\ unique_slide_ids = <<>>
    /\ slides = EmptyDict
    /\ layout_slides = <<>>
    /\ show = None

\* no network operation is running; config.max_retries has its default
InitNet ==
    /\ net_op = "none"
    /\ max_retries = 3
    /\ attempt = 0
    /\ net_log = <<>>
    /\ net_result = None

\* no batch is running
InitBatch ==
    /\ files = <<>>
    /\ max_workers = 1
    /\ task = <<>>
    /\ collected = {}
    /\ processed_files = <<>>
    /\ failed_files = <<>>

Init ==
    /\ pc = "scan"
    /\ nread = 0
    /\ InitParser
    /\ InitDeck
    /\ InitBatch
    /\ InitNet
    /\ input = <<>>
    /\ output = None

ParserState ==
    [metadata |-> metadata, sections |-> sections,
     current_section_label |-> current_section_label,
     current_section_content |-> current_section_content,
     current_section_info |-> current_section_info,
     in_section |-> in_section]

\* the scan step that reads line and leaves the locals as the record st
ScanLineTo(st, line) ==
    /\ pc = "scan"
    /\ nread < MaxLines
    /\ metadata' = st.metadata
    /\ sections' = st.sections
    /\ current_section_label' = st.current_section_label
    /\ current_section_content' = st.current_section_content
    /\ current_section_info' = st.current_section_info
    /\ in_section' = st.in_section
    /\ nread' = nread + 1
    /\ input' = Append(input, line)
    /\ UNCHANGED <<netVars, batchVars, pc, deckVars, output>>

\* variant: an end-of-block line also clears the pending label
ScanLine_end_clears_label(line) ==
    LET st == ParseLine(ParserState, line)
    IN  ScanLineTo(IF StartsWith(Strip(line), P_end)
                   THEN [st EXCEPT !.current_section_label = None]
                   ELSE st, line)

\* variant: a comment-label line met while a section is open names that
\* section
ScanLine_label_names_open(line) ==
    LET st == ParseLine(ParserState, line)
    IN  ScanLineTo(IF StartsWith(Strip(line), P_comment) /\ in_section
                   THEN [st EXCEPT
                           !.current_section_info =
                               Some([@[1] EXCEPT
                                       !.name = st.current_section_label[1]])]
                   ELSE st, line)

\* variant: a start-of-block line leaves the pending label in place
ScanLine_keep_label(line) ==
    LET st == ParseLine(ParserState, line)
    IN  ScanLineTo(IF StartsWith(Strip(line), P_start)
                   THEN [st EXCEPT
                           !.current_section_label = current_section_label]
                   ELSE st, line)

\* variant: a start-of-block line met while a section is open does not emit
\* the open section
ScanLine_drop_open(line) ==
    /\ pc = "scan"
    /\ nread < MaxLines
    /\ LET st == ParseLine(ParserState, line)
       IN  /\ metadata' = st.metadata
           /\ sections' = IF StartsWith(Strip(line), P_start) THEN sections
                          ELSE st.sections
           /\ current_section_label' = st.current_section_label
           /\ current_section_content' = st.current_section_content
           /\ current_section_info' = st.current_section_info
           /\ in_section' = st.in_section
    /\ nread' = nread + 1
    /\ input' = Append(input, line)
    /\ UNCHANGED <<netVars, batchVars, pc, deckVars, output>>

\* parse_file: the loop body on the next line of the document
ScanLine(line) ==
    /\ pc = "scan"
    /\ nread < MaxLines
    /\ LET st == ParseLine(ParserState, line)
       IN  /\ metadata' = st.metadata
           /\ sections' = st.sections
           /\ current_section_label' = st.current_section_label
           /\ current_section_content' = st.current_section_content
           /\ current_section_info' = st.current_section_info
           /\ in_section' = st.in_section
    /\ nread' = nread + 1
    /\ input' = Append(input, line)
    /\ UNCHANGED <<netVars, batchVars, pc, deckVars, output>>

\* variant: the section left open at the end of the document is emitted
EndOfFile_flush ==
    /\ pc = "scan"
    /\ nread >= 1
    /\ pc' = "parsed"
    /\ sections' =
         IF in_section /\ current_section_info # None
         THEN Append(sections, create_section(current_section_info[1],
                                              current_section_content))
         ELSE sections
    /\ UNCHANGED <<netVars, batchVars, nread, metadata, current_section_label,
                   current_section_content, current_section_info, in_section,
                   deckVars, input, output>>

\* parse_file: the lines are exhausted, return metadata, sections
\* (content.split('\n') has at least one line)
EndOfFile ==
    /\ pc = "scan"
    /\ nread >= 1
    /\ pc' = "parsed"
    /\ UNCHANGED <<netVars, batchVars, nread, parserVars, deckVars, input, output>>

\* variant: a document without sections gets a show with no metadata
GenerateFreeshowFile_skip_empty(dedup, current_time) ==
    /\ pc = "parsed"
    /\ LET d == IF dedup THEN deduplicate_sections(sections)
                ELSE [unique_sections |-> sections,
                      index_map |-> [i \in 1..Len(sections) |-> i - 1]]
           ids == [i \in 1..Len(d.unique_sections) |->
                      SlideId(d.unique_sections[i], i - 1)]
       IN  /\ unique_sections' = d.unique_sections
           /\ index_map' = d.index_map
           /\ unique_slide_ids' = ids
           /\ slides' = BuildSlides(d.unique_sections, ids)
           /\ layout_slides' =
                [k \in 1..Len(d.index_map) |-> ids[d.index_map[k] + 1]]
    /\ deduplicate' = dedup
    /\ show' = Some(BuildShow(IF sections = <<>> THEN EmptyDict ELSE metadata,
                              FileName, current_time))
    /\ pc' = "built"
    /\ UNCHANGED <<netVars, batchVars, nread, parserVars, input, output>>

\* generate_freeshow_file on the (file_metadata, sections) parse_file
\* returned, with config.deduplicate_sections = dedup, at time current_time
GenerateFreeshowFile(dedup, current_time) ==
    /\ pc = "parsed"
    /\ LET d == IF dedup THEN deduplicate_sections(sections)
                ELSE [unique_sections |-> sections,
                      index_map |-> [i \in 1..Len(sections) |-> i - 1]]
           ids == [i \in 1..Len(d.unique_sections) |->
                      SlideId(d.unique_sections[i], i - 1)]
       IN  /\ unique_sections' = d.unique_sections
           /\ index_map' = d.index_map
           /\ unique_slide_ids' = ids
           /\ slides' = BuildSlides(d.unique_sections, ids)
           /\ layout_slides' =
                [k \in 1..Len(d.index_map) |-> ids[d.index_map[k] + 1]]
    /\ deduplicate' = dedup
    /\ show' = Some(BuildShow(metadata, FileName, current_time))
    /\ pc' = "built"
    /\ UNCHANGED <<netVars, batchVars, nread, parserVars, input, output>>

Next ==
    \/ \E line \in DocLines : ScanLine(line)
    \/ EndOfFile
    \/ \E dedup \in BOOLEAN : GenerateFreeshowFile(dedup, 1)

Spec == Init /\ [][Next]_vars

(***************************************************************************)
(* Specification SpecRebuild: a document is scanned and built, then        *)
(* generate_freeshow_file runs a second time on the same file with the     *)
(* same configuration, at another or the same time; the first deck is kept *)
(* in output.                                                              *)
(***************************************************************************)
\* values of time.time() * 1000 at a build
Clock == {1, 2}

Ln_title == <<"{","t","i","t","l","e",":"," ","a"," ","?","}">>

RebuildLines == {Ln_start_verse, Ln_end, Ln_key, Ln_title, Ln_zero}

\* the second run of generate_freeshow_file: parse_file on the file, then the
\* build
Rebuild(current_time) ==
    /\ pc = "built"
    /\ output' = Some([unique_slide_ids |-> unique_slide_ids,
                       slides |-> slides,
                       layout_slides |-> layout_slides,
                       show |-> show[1]])
    /\ LET parsed == parse_file(input)
           d == IF deduplicate THEN deduplicate_sections(parsed.sections)
                ELSE [unique_sections |-> parsed.sections,
                      index_map |-> [i \in 1..Len(parsed.sections) |-> i - 1]]
           ids == [i \in 1..Len(d.unique_sections) |->
                      SlideId(d.unique_sections[i], i - 1)]
       IN  /\ unique_sections' = d.unique_sections
           /\ index_map' = d.index_map
           /\ unique_slide_ids' = ids
           /\ slides' = BuildSlides(d.unique_sections, ids)
           /\ layout_slides' =
                [k \in 1..Len(d.index_map) |-> ids[d.index_map[k] + 1]]
           /\ show' = Some(BuildShow(parsed.metadata, FileName, current_time))
    /\ pc' = "rebuilt"
    /\ UNCHANGED <<netVars, batchVars, nread, parserVars, deduplicate, input>>

NextRebuild ==
    \/ \E line \in RebuildLines : ScanLine(line)
    \/ EndOfFile
    \/ \E dedup \in BOOLEAN, current_time \in Clock :
          GenerateFreeshowFile(dedup, current_time)
    \/ \E current_time \in Clock : Rebuild(current_time)

SpecRebuild == Init /\ [][NextRebuild]_vars

(***************************************************************************)
(* Specification SpecBlocks: parse_file on documents made of labels,       *)
(* blocks and directives that set one key several times                    *)
(***************************************************************************)
Ln_label_pont == <<" ","{","c",":","P","o","n","t","}">>
Ln_end_chorus ==
    <<"{","e","n","d","_","o","f","_","c","h","o","r","u","s","}">>
Ln_key_d == <<" ","{","k","e","y",":","D","}">>
Ln_key_bare == <<"{","k","e","y","}">>

BlockLines ==
    {Ln_label, Ln_label_pont, Ln_start_verse, Ln_end_chorus,
     Ln_key, Ln_key_d, Ln_key_bare, Ln_zero}

NextBlocks ==
    \/ \E line \in BlockLines : ScanLine(line)
    \/ EndOfFile

SpecBlocks == Init /\ [][NextBlocks]_vars

(***************************************************************************)
(* Specification SpecScan: parse_file on documents with brace lines that   *)
(* have no closing brace                                                   *)
(***************************************************************************)
Ln_open_start ==
    <<"{","s","t","a","r","t","_","o","f","_","v","e","r","s","e">>
Ln_open_end == <<"{","e","n","d","_","o","f","_","v","e","r","s","e">>
Ln_open_label == <<"{","c",":"," ","X">>

ScanLines ==
    {Ln_bad, Ln_open_start, Ln_open_end, Ln_open_label,
     Ln_start_verse, Ln_end, Ln_key, Ln_zero}

NextScan ==
    \/ \E line \in ScanLines : ScanLine(line)
    \/ EndOfFile

SpecScan == Init /\ [][NextScan]_vars

(***************************************************************************)
(* Specification SpecDedup: deduplicate_sections on a list of sections     *)
(***************************************************************************)
Ln_a == <<"a">>
Ln_b == <<"b">>
Ln_comment_x == <<"{","c",":"," ","X","}">>
Ln_comment_y == <<" ","{","c",":","Y","}">>

ShortContentPool == {Ln_a, Ln_b}
ContentPool == {Ln_a, Ln_comment_x, Ln_comment_y}

SectionHeads ==
    {[name |-> <<"V","e","r","s","e"," ","1">>, type |-> T_verse,
      number |-> Some(<<"1">>)],
     [name |-> <<"R","e","f","r","a","i","n">>, type |-> T_chorus,
      number |-> None]}

ShortSectionPool ==
    {create_section(h, c) :
        h \in SectionHeads, c \in SeqsUpTo(ShortContentPool, MaxShortContent)}

SectionPool ==
    {create_section(h, c) :
        h \in SectionHeads, c \in SeqsUpTo(ContentPool, MaxContent)}

InitIdleParser ==
    /\ nread = 0
    /\ metadata = EmptyDict
    /\ current_section_label = None
    /\ current_section_content = <<>>
    /\ current_section_info = None
    /\ in_section = FALSE

InitDedup ==
    /\ pc = "dedup_in"
    /\ sections \in SeqsUpTo(ShortSectionPool, MaxSections)
    /\ InitIdleParser
    /\ InitDeck
    /\ InitBatch
    /\ InitNet
    /\ input = <<>>
    /\ output = None

Deduplicate ==
    /\ pc = "dedup_in"
    /\ LET d == deduplicate_sections(sections)
       IN  /\ unique_sections' = d.unique_sections
           /\ index_map' = d.index_map
    /\ pc' = "dedup_out"
    /\ UNCHANGED <<netVars, batchVars, nread, parserVars, deduplicate,
                   unique_slide_ids, slides,
                   layout_slides, show, input, output>>

NextDedup == Deduplicate

SpecDedup == InitDedup /\ [][NextDedup]_vars

(***************************************************************************)
(* Specification SpecPair: deduplicate_sections on two sections with       *)
(* longer content                                                          *)
(***************************************************************************)
InitPair ==
    /\ pc = "dedup_in"
    /\ sections \in [1..2 -> SectionPool]
    /\ InitIdleParser
    /\ InitDeck
    /\ InitBatch
    /\ InitNet
    /\ input = <<>>
    /\ output = None

SpecPair == InitPair /\ [][NextDedup]_vars

(***************************************************************************)
(* Specification SpecChord: parse_chord_line on one line                   *)
(***************************************************************************)
ChordTokens ==
    {<<"[","C","]">>, <<"[","D","m","]">>, <<"[">>, <<"]">>, <<"a">>,
     <<"1">>, <<".">>, <<" ">>}

RECURSIVE Flatten(_)
Flatten(ss) == IF ss = <<>> THEN <<>> ELSE Head(ss) \o Flatten(Tail(ss))

ChordLines == {Flatten(ts) : ts \in SeqsUpTo(ChordTokens, MaxTokens)}

InitIdle ==
    /\ sections = <<>>
    /\ InitIdleParser
    /\ InitDeck
    /\ InitBatch
    /\ InitNet
    /\ output = None

InitChord ==
    /\ pc = "chord_in"
    /\ input \in ChordLines
    /\ InitIdle

ParseChordLine ==
    /\ pc = "chord_in"
    /\ output' = parse_chord_line(input)
    /\ pc' = "chord_out"
    /\ UNCHANGED <<netVars, batchVars, nread, parserVars, deckVars, input>>

NextChord == ParseChordLine

SpecChord == InitChord /\ [][NextChord]_vars

(***************************************************************************)
(* Specification SpecChordId: parse_chord_line on lines with chord marks   *)
(* at offsets of one and two digits                                        *)
(***************************************************************************)
ChordIdTokens ==
    {<<"[","C","1","]">>, <<"[","C","]">>, <<"a","a","a","a","a","a">>, <<"a">>}

ChordIdLines == {Flatten(ts) : ts \in SeqsUpTo(ChordIdTokens, MaxTokens)}

InitChordId ==
    /\ pc = "chord_in"
    /\ input \in ChordIdLines
    /\ InitIdle

NextChordId == ParseChordLine

SpecChordId == InitChordId /\ [][NextChordId]_vars

(***************************************************************************)
(* Specification SpecPipeline: main.process_single_file on one document,   *)
(* enhance_chordpro and then generate_freeshow_file on the enhanced file   *)
(***************************************************************************)
MaxBlocks == 2

Ln_label_pont1 == <<"{","c",":"," ","P","o","n","t"," ","1","}">>

\* a block of a document: a comment-label line or none, the start-of-block
\* line, at most one line of content, the end-of-block line
PipeBlocks ==
    {label \o <<Ln_start_verse>> \o content \o <<Ln_end>> :
        label \in {<<>>, <<Ln_label>>, <<Ln_label_pont1>>},
        content \in {<<>>, <<Ln_zero>>, <<Ln_label_pont1>>}}

\* the documents: a key directive or none, then the blocks
PipeDocs ==
    {head \o Flatten(blocks) : head \in {<<>>, <<Ln_key>>},
                               blocks \in SeqsUpTo(PipeBlocks, MaxBlocks)}

\* self.metadata.get(lookup_key): the song's csv record, None if it has none
CsvRecords ==
    {None,
     Some([number |-> <<"1">>, title |-> <<"a", " ", "?">>,
           author |-> <<"b">>, composer |-> <<>>,
           copyright |-> <<"c", " ", "2", "0", "0", "1">>])}

InitPipeline ==
    /\ pc = "pipe_in"
    /\ input \in PipeDocs
    /\ InitIdle

\* enhance_chordpro: the variables of the parser hold what parse_file returned
\* for the original document, output the text of the enhanced file
EnhanceChordpro(csv_metadata) ==
    /\ pc = "pipe_in"
    /\ LET parsed == parse_file(input)
       IN  /\ metadata' = parsed.metadata
           /\ sections' = parsed.sections
           /\ output' = enhance_chordpro(parsed.metadata, parsed.sections,
                                         csv_metadata)
    /\ pc' = "enhanced"
    /\ UNCHANGED <<netVars, batchVars, nread, current_section_label,
                   current_section_content, current_section_info, in_section,
                   deckVars, input>>

\* generate_freeshow_file on the enhanced file
GenerateFromEnhanced(dedup, current_time) ==
    /\ pc = "enhanced"
    /\ \E parsed \in {parse_file(Split(output, NL))} :
       \E d \in {IF dedup THEN deduplicate_sections(parsed.sections)
                 ELSE [unique_sections |-> parsed.sections,
                       index_map |-> [i \in 1..Len(parsed.sections) |-> i - 1]]} :
       \E ids \in {[i \in 1..Len(d.unique_sections) |->
                       SlideId(d.unique_sections[i], i - 1)]} :
           /\ metadata' = parsed.metadata
           /\ sections' = parsed.sections
           /\ unique_sections' = d.unique_sections
           /\ index_map' = d.index_map
           /\ unique_slide_ids' = ids
           /\ slides' = BuildSlides(d.unique_sections, ids)
           /\ layout_slides' =
                [k \in 1..Len(d.index_map) |-> ids[d.index_map[k] + 1]]
           /\ show' = Some(BuildShow(parsed.metadata, EnhancedFileName,
                                     current_time))
    /\ deduplicate' = dedup
    /\ pc' = "built"
    /\ UNCHANGED <<netVars, batchVars, nread, current_section_label,
                   current_section_content, current_section_info, in_section,
                   input, output>>

NextPipeline ==
    \/ \E csv_metadata \in CsvRecords : EnhanceChordpro(csv_metadata)
    \/ \E dedup \in BOOLEAN : GenerateFromEnhanced(dedup, 1)

SpecPipeline == InitPipeline /\ [][NextPipeline]_vars

(***************************************************************************)
(* Specification SpecSlide: _create_freeshow_slide on one section          *)
(***************************************************************************)
Ln_space == <<" ">>
Ln_numbered == <<"1", ".", " ", "[", "C", "]", "a">>

SlideContentPool ==
    {Ln_comment_y, Ln_blank, Ln_space, Ln_chords, Ln_key, Ln_numbered, Ln_zero}

SlideSections ==
    {create_section([name |-> <<"V","e","r","s","e"," ","1">>,
                     type |-> T_verse, number |-> Some(<<"1">>)], c) :
        c \in SeqsUpTo(SlideContentPool, MaxContent)}

InitSlide ==
    /\ pc = "slide_in"
    /\ input \in SlideSections
    /\ InitIdle

CreateSlide ==
    /\ pc = "slide_in"
    /\ output' = create_freeshow_slide(input, SlideId(input, 0))
    /\ pc' = "slide_out"
    /\ UNCHANGED <<netVars, batchVars, nread, parserVars, deckVars, input>>

NextSlide == CreateSlide

SpecSlide == InitSlide /\ [][NextSlide]_vars

(***************************************************************************)
(* Specification SpecPunct: fix_french_punctuation applied to a value,     *)
(* then applied again to its own result                                    *)
(***************************************************************************)
PunctAlphabet == {" ", NBSP, ";", "?", LGUIL, RGUIL, "a"}

\* a str is [str |-> text]; None stands for the non-text values
PunctValues ==
    {[str |-> t] : t \in SeqsUpTo(PunctAlphabet, MaxTextLen)}
        \cup {[none |-> TRUE]}

InitPunct ==
    /\ pc = "punct_in"
    /\ input \in PunctValues
    /\ InitIdle

Normalize ==
    /\ pc = "punct_in"
    /\ output' = <<fix_french_punctuation_any(input)>>
    /\ pc' = "punct_once"
    /\ UNCHANGED <<netVars, batchVars, nread, parserVars, deckVars, input>>

NormalizeAgain ==
    /\ pc = "punct_once"
    /\ output' = Append(output, fix_french_punctuation_any(output[1]))
    /\ pc' = "punct_twice"
    /\ UNCHANGED <<netVars, batchVars, nread, parserVars, deckVars, input>>

NextPunct == Normalize \/ NormalizeAgain

SpecPunct == InitPunct /\ [][NextPunct]_vars

(***************************************************************************)
(* Specification SpecResolve: _parse_section_info on a block keyword and   *)
(* an optional label                                                       *)
(***************************************************************************)
BlockTypes == {T_verse, T_chorus, <<"x">>}

Upper(s) == [i \in 1..Len(s) |-> ToUpper(s[i])]
Capitalized(s) == [i \in 1..Len(s) |-> IF i = 1 THEN ToUpper(s[i]) ELSE s[i]]

LabelWords ==
    {label_to_type_map[i][1] : i \in DOMAIN label_to_type_map}
        \cup {<<"c","o","u","p","l","e","t">>}
LabelSuffixes == {<<>>, <<" ","2">>, <<" ","1","2">>, <<"2">>, <<" ","b">>}

Labels ==
    {None} \cup
    {Some(w \o x) :
        w \in UNION {{k, Upper(k), Capitalized(k)} : k \in LabelWords},
        x \in LabelSuffixes}

InitResolve ==
    /\ pc = "resolve_in"
    /\ input \in [block_type : BlockTypes, label : Labels]
    /\ InitIdle

Resolve ==
    /\ pc = "resolve_in"
    /\ output' = parse_section_info(input.block_type, input.label)
    /\ pc' = "resolve_out"
    /\ UNCHANGED <<netVars, batchVars, nread, parserVars, deckVars, input>>

NextResolve == Resolve

SpecResolve == InitResolve /\ [][NextResolve]_vars

(***************************************************************************)
(* Specification SpecBatch: process_files_batch on a list of files.  With  *)
(* max_workers > 1 every file is submitted to a ThreadPoolExecutor, whose  *)
(* worker threads take the queued calls in order, and the main thread      *)
(* takes the finished futures from as_completed; otherwise the main thread *)
(* calls process_single_file on each file in turn.  Whether a call raises  *)
(* is not decided by process_files_batch: both outcomes are possible.      *)
(***************************************************************************)
BatchFileNames == {<<"a">>, <<"b">>}

\* ProcessedFile(original=filepath, ...)
ProcessedFile(filepath) == [original |-> filepath]

InitBatchRun ==
    /\ pc = "batch"
    /\ files \in SeqsUpTo(BatchFileNames, MaxFiles)
    /\ max_workers \in 1..MaxWorkers
    /\ task = [i \in 1..Len(files) |-> "unsubmitted"]
    /\ collected = {}
    /\ processed_files = <<>>
    /\ failed_files = <<>>
    /\ InitNet
    /\ nread = 0
    /\ sections = <<>>
    /\ InitParser
    /\ deduplicate = TRUE
    /\ unique_sections = <<>>
    /\ index_map = <<>>
    /\ unique_slide_ids = <<>>
    /\ slides = EmptyDict
    /\ layout_slides = <<>>
    /\ show = None
    /\ input = <<>>
    /\ output = None

TasksIn(states) == {i \in DOMAIN task : task[i] \in states}

\* executor.submit(process_single_file, ..., file) for the next file
Submit ==
    /\ pc = "batch"
    /\ max_workers > 1
    /\ TasksIn({"unsubmitted"}) # {}
    /\ task' = [task EXCEPT ![Min(TasksIn({"unsubmitted"}))] = "queued"]
    /\ UNCHANGED <<netVars, pc, nread, parserVars, deckVars, files, max_workers,
                   collected, processed_files, failed_files, input, output>>

\* a worker thread of the pool takes the oldest queued call
WorkerStart ==
    /\ pc = "batch"
    /\ max_workers > 1
    /\ TasksIn({"queued"}) # {}
    /\ Cardinality(TasksIn({"running"})) < max_workers
    /\ task' = [task EXCEPT ![Min(TasksIn({"queued"}))] = "running"]
    /\ UNCHANGED <<netVars, pc, nread, parserVars, deckVars, files, max_workers,
                   collected, processed_files, failed_files, input, output>>

\* process_single_file returns or raises in a worker thread
WorkerFinish(i, raises) ==
    /\ pc = "batch"
    /\ max_workers > 1
    /\ i \in TasksIn({"running"})
    /\ task' = [task EXCEPT ![i] = IF raises THEN "raised" ELSE "returned"]
    /\ UNCHANGED <<netVars, pc, nread, parserVars, deckVars, files, max_workers,
                   collected, processed_files, failed_files, input, output>>

\* variant: the except branch does not record the file
CollectFuture_drop_failed(i) ==
    /\ pc = "batch"
    /\ max_workers > 1
    /\ TasksIn({"unsubmitted"}) = {}
    /\ i \in TasksIn({"returned", "raised"}) \ collected
    /\ processed_files' =
         IF task[i] = "returned"
         THEN Append(processed_files, ProcessedFile(files[i]))
         ELSE processed_files
    /\ collected' = collected \cup {i}
    /\ UNCHANGED <<netVars, pc, nread, parserVars, deckVars, files, max_workers, task,
                   failed_files, input, output>>

\* one iteration of the loop over as_completed(futures): future.result()
\* returns the ProcessedFile or raises what the call raised
CollectFuture(i) ==
    /\ pc = "batch"
    /\ max_workers > 1
    /\ TasksIn({"unsubmitted"}) = {}
    /\ i \in TasksIn({"returned", "raised"}) \ collected
    /\ processed_files' =
         IF task[i] = "returned"
         THEN Append(processed_files, ProcessedFile(files[i]))
         ELSE processed_files
    /\ failed_files' =
         IF task[i] = "raised" THEN Append(failed_files, files[i])
         ELSE failed_files
    /\ collected' = collected \cup {i}
    /\ UNCHANGED <<netVars, pc, nread, parserVars, deckVars, files, max_workers, task,
                   input, output>>

\* one iteration of the sequential loop over files
SequentialStep(raises) ==
    /\ pc = "batch"
    /\ max_workers <= 1
    /\ Cardinality(collected) < Len(files)
    /\ LET i == Cardinality(collected) + 1
       IN  /\ task' = [task EXCEPT
                         ![i] = IF raises THEN "raised" ELSE "returned"]
           /\ processed_files' =
                IF raises THEN processed_files
                ELSE Append(processed_files, ProcessedFile(files[i]))
           /\ failed_files' =
                IF raises THEN Append(failed_files, files[i])
                ELSE failed_files
           /\ collected' = collected \cup {i}
    /\ UNCHANGED <<netVars, pc, nread, parserVars, deckVars, files, max_workers,
                   input, output>>

\* return processed_files, once every file has been handled
BatchReturn ==
    /\ pc = "batch"
    /\ collected = DOMAIN files
    /\ pc' = "batch_done"
    /\ output' = Some(processed_files)
    /\ UNCHANGED <<netVars, batchVars, nread, parserVars, deckVars, input>>

NextBatch ==
    \/ Submit
    \/ WorkerStart
    \/ \E i \in DOMAIN task, raises \in BOOLEAN : WorkerFinish(i, raises)
    \/ \E i \in DOMAIN task : CollectFuture(i)
    \/ \E raises \in BOOLEAN : SequentialStep(raises)
    \/ BatchReturn

SpecBatch == InitBatchRun /\ [][NextBatch]_vars

(***************************************************************************)
(* utils.sanitize_filename and specification SpecSanitize: the function on *)
(* one file name                                                           *)
(***************************************************************************)
\* \w of a str pattern: letters, digits and the underscore
IsWordChar(c) ==
    IsAsciiLetter(c) \/ IsDigit(c) \/ c \in AccentedLetters \/ c = "_"

\* os.path.basename (posixpath): what follows the last slash
Basename(path) ==
    LET slashes == {i \in 1..Len(path) : path[i] = "/"}
    IN  IF slashes = {} THEN path
        ELSE SubSeq(path, Max(slashes) + 1, Len(path))

\* re.sub(r'[^\w\.-]', '_', filename)
SubInvalidChars(filename) ==
    [i \in 1..Len(filename) |->
        IF IsWordChar(filename[i]) \/ filename[i] \in {".", "-"}
        THEN filename[i] ELSE "_"]

UnnamedFile == <<"u","n","n","a","m","e","d","_","f","i","l","e">>

sanitize_filename(filename) ==
    LET cleaned == SubInvalidChars(Basename(filename))
    IN  IF cleaned = <<>> THEN UnnamedFile ELSE cleaned

NameAlphabet == {"a", "1", ".", "/", "-", " ", "\\"}

InitSanitize ==
    /\ pc = "sanitize_in"
    /\ input \in SeqsUpTo(NameAlphabet, MaxNameLen)
    /\ InitIdle

Sanitize ==
    /\ pc = "sanitize_in"
    /\ output' = sanitize_filename(input)
    /\ pc' = "sanitize_out"
    /\ UNCHANGED <<netVars, batchVars, nread, parserVars, deckVars, input>>

NextSanitize == Sanitize

SpecSanitize == InitSanitize /\ [][NextSanitize]_vars

(***************************************************************************)
(* Specification SpecNet: one call of a network operation of               *)
(* network.OnlineResourceManager.  An attempt is one pass of the loop body *)
(* up to its return or its wait; SpecNetLive adds that a call that can     *)
(* take a step does take one (urlopen has a timeout, time.sleep returns).  *)
(***************************************************************************)
MaxRetries == 3

NetOps == {"get_available_files", "download_file", "download_csv_metadata"}

\* the ways one pass of the loop body can go: the value is returned, the page
\* lists no file, HTTPError, URLError, or any other exception
Outcomes(op) ==
    {"ok", "HTTPError", "URLError", "Exception"}
        \cup (IF op = "get_available_files" THEN {"no files"} ELSE {})

SuccessValue(op) == IF op = "get_available_files" THEN "files" ELSE "path"
FailureValue(op) == IF op = "get_available_files" THEN "empty list" ELSE "no path"

\* variant: the wait is taken after the last attempt too
ShouldRetry_last_too(a, retries) == a < retries

\* attempt < config.max_retries - 1
ShouldRetry(a, retries) == a < retries - 1

InitNetRun ==
    /\ pc = "net_try"
    /\ net_op \in NetOps
    /\ max_retries \in 0..MaxRetries
    /\ attempt = 0
    /\ net_log = <<>>
    /\ net_result = None
    /\ nread = 0
    /\ sections = <<>>
    /\ InitParser
    /\ InitDeck
    /\ InitBatch
    /\ input = <<>>
    /\ output = None

\* one pass of the loop body, ending in a return or at the wait
Attempt(outcome) ==
    /\ pc = "net_try"
    /\ attempt < max_retries
    /\ net_log' = Append(net_log, outcome)
    /\ IF outcome = "ok"
       THEN /\ net_result' = Some(SuccessValue(net_op))
            /\ pc' = "net_done"
       ELSE IF outcome \in {"HTTPError", "URLError"}
               /\ ShouldRetry(attempt, max_retries)
       THEN /\ net_result' = net_result
            /\ pc' = "net_wait"
       ELSE /\ net_result' = Some(FailureValue(net_op))
            /\ pc' = "net_done"
    /\ UNCHANGED <<net_op, max_retries, attempt, batchVars, nread, parserVars,
                   deckVars, input, output>>

\* time.sleep(config.retry_delay); continue
Wait ==
    /\ pc = "net_wait"
    /\ net_log' = Append(net_log, "sleep")
    /\ attempt' = attempt + 1
    /\ pc' = "net_try"
    /\ UNCHANGED <<net_op, max_retries, net_result, batchVars, nread,
                   parserVars, deckVars, input, output>>

\* the loop is over: the return after it
Exhausted ==
    /\ pc = "net_try"
    /\ ~(attempt < max_retries)
    /\ net_result' = Some(FailureValue(net_op))
    /\ pc' = "net_done"
    /\ UNCHANGED <<net_op, max_retries, attempt, net_log, batchVars, nread,
                   parserVars, deckVars, input, output>>

NextNet ==
    \/ \E outcome \in Outcomes(net_op) : Attempt(outcome)
    \/ Wait
    \/ Exhausted

SpecNet == InitNetRun /\ [][NextNet]_vars

SpecNetLive == SpecNet /\ WF_vars(NextNet)

(***************************************************************************)
(* Properties of the show built by generate_freeshow_file (Spec)           *)
(***************************************************************************)
Built == pc = "built"

\* C1: the layout has one entry per section the parser emitted, and every
\* slide id in the layout is a key of slides, with deduplication on or off
Thm_C1_LayoutWellFormed ==
    Built =>
        /\ Len(layout_slides) = Len(sections)
        /\ \A k \in 1..Len(layout_slides) : layout_slides[k] \in DOMAIN slides

Wit_C1_Redirected ==
    /\ Built
    /\ deduplicate
    /\ Len(sections) >= 2
    /\ Len(unique_sections) < Len(sections)

\* the unique section the slide stored under id was built from (the last one
\* that was given this id)
BuiltFrom(id) ==
    unique_sections[Max({i \in 1..Len(unique_sections) :
                            unique_slide_ids[i] = id})]

FirstWithHash(secs, k) ==
    Min({j \in 1..k : get_content_hash(secs[j]) = get_content_hash(secs[k])})

Deduped == pc = "dedup_out"

\* C3: the index map has one entry per input section; two sections get the
\* same unique index exactly when their content hashes are equal
Thm_C3_IndexMapByHash ==
    Deduped =>
        /\ Len(index_map) = Len(sections)
        /\ \A i, j \in 1..Len(sections) :
              (get_content_hash(sections[i]) = get_content_hash(sections[j]))
                  <=> (index_map[i] = index_map[j])

Wit_C3_NonAdjacentRepeat ==
    /\ Deduped
    /\ Len(sections) = 3
    /\ get_content_hash(sections[1]) = get_content_hash(sections[3])
    /\ get_content_hash(sections[1]) # get_content_hash(sections[2])
    /\ sections[1] # sections[3]

\* positions of the sections that are the first with their content hash
FirstPositions(secs) == {i \in 1..Len(secs) : FirstWithHash(secs, i) = i}

\* C4: the unique list is the first section of each content hash, in order of
\* first occurrence, numbered 0, 1, 2, ...; every unique index is referenced
Thm_C4_FirstOccurrenceKept ==
    Deduped =>
        /\ Len(unique_sections) = Cardinality(FirstPositions(sections))
        /\ \A i \in 1..Len(sections) :
              unique_sections[index_map[i] + 1] =
                  sections[FirstWithHash(sections, i)]
        /\ \A i \in FirstPositions(sections) :
              index_map[i] =
                  Cardinality({j \in FirstPositions(sections) : j < i})
        /\ {index_map[i] : i \in 1..Len(sections)} =
              0..(Len(unique_sections) - 1)

Wit_C4_LaterCopyDropped ==
    /\ Deduped
    /\ index_map = <<0, 1, 0>>
    /\ \E i, j \in 1..Len(sections) :
          /\ i < j
          /\ index_map[i] = index_map[j]
          /\ sections[i].name # sections[j].name
          /\ unique_sections[index_map[j] + 1].name = sections[i].name

\* a comment-label line: after trimming, it begins with {c:
C9_IsLabelLine(line) ==
    LET t == Strip(line)
    IN  Len(t) >= 3 /\ t[1] = "{" /\ t[2] = "c" /\ t[3] = ":"

\* the content lines of a section that are not comment-label lines
C9_OtherLines(section) ==
    SelectSeq(section.content, LAMBDA line : ~C9_IsLabelLine(line))

\* C9: two sections whose content differs only by comment-label lines have
\* the same content hash and the same unique index, whatever their names,
\* types and ordinals
Thm_C9_CommentLinesIgnored ==
    Deduped =>
        \A i, j \in 1..Len(sections) :
            C9_OtherLines(sections[i]) = C9_OtherLines(sections[j])
                => /\ get_content_hash(sections[i])
                        = get_content_hash(sections[j])
                   /\ index_map[i] = index_map[j]

Wit_C9_CollapsedDespiteComments ==
    /\ Deduped
    /\ \E i, j \in 1..Len(sections) :
          /\ sections[i].content = <<Ln_a, Ln_a>>
          /\ sections[j].content = <<Ln_a, Ln_comment_x, Ln_a>>
          /\ sections[i].type # sections[j].type
          /\ index_map[i] = index_map[j]
          /\ Len(unique_sections) = 1

(***************************************************************************)
(* Properties of parse_chord_line (SpecChord)                              *)
(***************************************************************************)
ChordParsed == pc = "chord_out"

\* index of the last "]" before index j of line, 0 if there is none
C5_PrevClose(line, j) ==
    Max({0} \cup {p \in 1..(j - 1) : line[p] = "]"})

\* the closing brackets of the chord marks of line: a "]" that has, since the
\* previous "]", a "[" followed by at least one character
C5_Closers(line) ==
    {j \in 1..Len(line) :
        /\ line[j] = "]"
        /\ \E i \in (C5_PrevClose(line, j) + 1)..(j - 2) : line[i] = "["}

\* the opening bracket of the mark closed at j: the first "[" since the
\* previous "]"
C5_Opener(line, j) ==
    Min({i \in (C5_PrevClose(line, j) + 1)..(j - 2) : line[i] = "["})

\* the closing bracket of the k-th mark from the left
C5_Closer(line, k) ==
    CHOOSE j \in C5_Closers(line) :
        Cardinality({c \in C5_Closers(line) : c <= j}) = k

\* C5: a line with n chord marks gives exactly n chords, in left-to-right
\* order with the symbols of the marks, at non-decreasing offsets
Thm_C5_OneChordPerMark ==
    ChordParsed =>
        LET n == Cardinality(C5_Closers(input))
        IN  /\ Len(output.chords) = n
            /\ \A k \in 1..n :
                  output.chords[k].key =
                      SubSeq(input, C5_Opener(input, C5_Closer(input, k)) + 1,
                             C5_Closer(input, k) - 1)
            /\ \A k \in 1..(n - 1) :
                  output.chords[k].pos <= output.chords[k + 1].pos

Wit_C5_TwoMarks ==
    /\ ChordParsed
    /\ Len(output.chords) = 2
    /\ output.chords[1].key = <<"C">>
    /\ output.chords[2].key = <<"D","m">>
    /\ output.chords[1].pos = 1
    /\ output.chords[2].pos = 2

\* the characters of line that are in no chord mark, in order
C6_OutsideMarks(line) ==
    LET inside == {p \in 1..Len(line) :
                      \E j \in C5_Closers(line) :
                          C5_Opener(line, j) <= p /\ p <= j}
        F[p \in 0..Len(line)] ==
            IF p = 0 THEN <<>>
            ELSE IF p \in inside THEN F[p - 1] ELSE Append(F[p - 1], line[p])
    IN  F[Len(line)]

\* C6 as stated: the text is the line with every chord mark removed
Cex_C6_TextIsLineWithoutMarks ==
    ChordParsed => output.text = C6_OutsideMarks(input)

\* a leading numeric-list marker of text: digits, a dot, then white space;
\* the number of characters it takes, 0 if text has none
C6_MarkerLen(text) ==
    IF \E d \in 1..Len(text) :
          /\ \A p \in 1..d : IsDigit(text[p])
          /\ d < Len(text)
          /\ text[d + 1] = "."
    THEN LET dot == Min({p \in 1..Len(text) : text[p] = "."})
         IN  Max({e \in dot..Len(text) :
                    \A p \in (dot + 1)..e : IsSpace(text[p])})
    ELSE 0

\* C6 amended: the text is the line with every chord mark removed and then,
\* if what is left starts with a numeric-list marker (digits, a dot and the
\* white space after it), with that marker removed too
Thm_C6_TextWithoutMarksAndNumber ==
    ChordParsed =>
        LET rest == C6_OutsideMarks(input)
        IN  output.text = SubSeq(rest, C6_MarkerLen(rest) + 1, Len(rest))

Wit_C6_NumberedLineWithMark ==
    /\ ChordParsed
    /\ input = <<"1", ".", "[", "C", "]", "a">>
    /\ output.text = <<"a">>

(***************************************************************************)
(* Properties of fix_french_punctuation (SpecPunct)                        *)
(***************************************************************************)
\* C7: normalizing a normalized text changes nothing
Thm_C7_Idempotent ==
    pc = "punct_twice" => output[2] = output[1]

Wit_C7_NormalizedTwice ==
    /\ pc = "punct_twice"
    /\ input = [str |-> <<LGUIL, ";", NBSP, "?", RGUIL>>]
    /\ output[1] # input
    /\ output[2] = [str |-> <<LGUIL, NBSP, ";", NBSP, "?", NBSP, RGUIL>>]

C8_Marks == {";", ":", "!", "?", RGUIL}
C8_Blank == {" ", "\t", NBSP}

\* the positions of text that hold white space of a run that ends at a mark
\* or that starts right after an opening guillemet
C8_Adjacent(text) ==
    {p \in 1..Len(text) :
        /\ text[p] \in C8_Blank
        /\ \/ \E q \in (p + 1)..Len(text) :
                 /\ text[q] \in C8_Marks
                 /\ \A r \in p..(q - 1) : text[r] \in C8_Blank
           \/ \E q \in 1..(p - 1) :
                 /\ text[q] = LGUIL
                 /\ \A r \in (q + 1)..p : text[r] \in C8_Blank}

\* text without the white space adjacent to the marks
C8_Others(text) ==
    LET F[p \in 0..Len(text)] ==
            IF p = 0 THEN <<>>
            ELSE IF p \in C8_Adjacent(text) THEN F[p - 1]
            ELSE Append(F[p - 1], text[p])
    IN  F[Len(text)]

\* C8: in the result every ; : ! ? and closing guillemet has exactly one
\* non-breaking space before it, every opening guillemet exactly one after
\* it, and all other characters are those of the input in the same order;
\* an empty text and a value that is not a text are returned as they are
Thm_C8_OnlyAdjacentSpaceChanges ==
    pc = "punct_once" =>
        IF "str" \notin DOMAIN input \/ input.str = <<>>
        THEN output[1] = input
        ELSE LET x == input.str
                 y == output[1].str
             IN  /\ C8_Others(y) = C8_Others(x)
                 /\ \A p \in 1..Len(y) :
                       y[p] \in C8_Marks =>
                           /\ p > 1
                           /\ y[p - 1] = NBSP
                           /\ p > 2 => y[p - 2] \notin C8_Blank
                 /\ \A p \in 1..Len(y) :
                       y[p] = LGUIL =>
                           /\ p < Len(y)
                           /\ y[p + 1] = NBSP
                           /\ p + 2 <= Len(y) => y[p + 2] \notin C8_Blank

Wit_C8_SpaceReplaced ==
    /\ pc = "punct_once"
    /\ input = [str |-> <<"a", " ", " ", ";", "a">>]
    /\ output[1] = [str |-> <<"a", NBSP, ";", "a">>]

(***************************************************************************)
(* Properties of _parse_section_info (SpecResolve)                         *)
(***************************************************************************)
C10_SameIgnoringCase(a, b) ==
    /\ Len(a) = Len(b)
    /\ \A p \in 1..Len(a) : ToLower(a[p]) = ToLower(b[p])

\* C10: a label that is a key of the label table, a space and digits, in any
\* letter case, resolves to the type the table gives for the key, the digits
\* as ordinal and the label as name, whatever the block keyword
Thm_C10_KeyWithOrdinal ==
    (pc = "resolve_out" /\ input.label # None) =>
            LET label == input.label[1]
            IN  \A i \in DOMAIN label_to_type_map, n \in 1..Len(label) :
                    LET key == label_to_type_map[i][1]
                        digits == SubSeq(label, Len(label) - n + 1, Len(label))
                    IN  (/\ Len(label) = Len(key) + 1 + n
                         /\ C10_SameIgnoringCase(SubSeq(label, 1, Len(key)), key)
                         /\ label[Len(key) + 1] = " "
                         /\ \A p \in 1..n : IsDigit(digits[p]))
                        => /\ output.type = label_to_type_map[i][2]
                           /\ output.number = Some(digits)
                           /\ output.name = label

Wit_C10_UpperCaseKeyOtherKeyword ==
    /\ pc = "resolve_out"
    /\ input.block_type = <<"x">>
    /\ input.label = Some(<<"P","O","N","T"," ","1","2">>)
    /\ output.type = T_bridge
    /\ output.number = Some(<<"1","2">>)

\* C11: a label that is a key of the label table alone, in any letter case,
\* resolves to the type the table gives for the key, whatever the block
\* keyword, and the ordinal stays unset
Cex_C11_KeyAlone ==
    (pc = "resolve_out" /\ input.label # None) =>
        \A i \in DOMAIN label_to_type_map :
            C10_SameIgnoringCase(input.label[1], label_to_type_map[i][1])
                => /\ output.type = label_to_type_map[i][2]
                   /\ output.number = None

(***************************************************************************)
(* Properties of parse_file (Spec)                                         *)
(***************************************************************************)
\* the lines of the document read so far that are start-of-block lines,
\* end-of-block lines
StartLines(lines) ==
    {i \in 1..Len(lines) : StartsWith(Strip(lines[i]), P_start)}
EndLines(lines) ==
    {i \in 1..Len(lines) : StartsWith(Strip(lines[i]), P_end)}

\* a block is open just before line i: a start-of-block line precedes it with
\* no end-of-block line in between
OpenBefore(lines, i) ==
    \E j \in StartLines(lines) :
        /\ j < i
        /\ \A k \in EndLines(lines) : ~(j < k /\ k < i)

\* the start-of-block line of the block open just before line i
OpenerBefore(lines, i) == Max({j \in StartLines(lines) : j < i})

\* the lines that close a block: a start or end line met while a block is open
CloseLines(lines) ==
    {i \in StartLines(lines) \cup EndLines(lines) : OpenBefore(lines, i)}

\* the k-th smallest element of a set of numbers
RECURSIVE Nth(_, _)
Nth(S, k) == IF k = 1 THEN Min(S) ELSE Nth(S \ {Min(S)}, k - 1)

\* C12: when the document has ended, the emitted sections are exactly the
\* blocks closed by an end-of-block line or a later start-of-block line, each
\* with the lines between its start and its closing line; a block still open
\* at the end is not emitted, and its lines (those after its start line) lie
\* after every closing line, so they are in no emitted section
Thm_C12_OpenSectionNotEmitted ==
    pc \in {"parsed", "built"} =>
        LET closes == CloseLines(input)
            n == Len(input)
        IN  /\ Len(sections) = Cardinality(closes)
            /\ \A k \in 1..Len(sections) :
                   LET e == Nth(closes, k)
                   IN  sections[k].content =
                           SubSeq(input, OpenerBefore(input, e) + 1, e - 1)
            /\ in_section = OpenBefore(input, n + 1)
            /\ in_section =>
                   /\ \A e \in closes : e <= OpenerBefore(input, n + 1)
                   /\ current_section_content =
                          SubSeq(input, OpenerBefore(input, n + 1) + 1, n)

Wit_C12_EndsWhileOpen ==
    /\ pc = "parsed"
    /\ in_section
    /\ Len(sections) = 1
    /\ current_section_content = <<Ln_zero>>
    /\ sections[1].content = <<Ln_chords>>

\* C13: in every step of the scan, a line that starts with a brace and does
\* not match the generic directive grammar leaves the directive map, the
\* section list and the parser's block state as they are and is treated as
\* plain content: appended to the open section, ignored when none is open
Cex_C13_MalformedBraceLineIsContent ==
    [][(pc = "scan" /\ Len(input') = Len(input) + 1) =>
          LET line == input'[Len(input')]
          IN  (/\ StartsWith(Strip(line), <<"{">>)
               /\ DirectiveMatch(Strip(line)) = None)
              => /\ metadata' = metadata
                 /\ sections' = sections
                 /\ in_section' = in_section
                 /\ current_section_info' = current_section_info
                 /\ current_section_content' =
                      IF in_section THEN Append(current_section_content, line)
                      ELSE current_section_content]_vars

(***************************************************************************)
(* Properties of process_files_batch (SpecBatch)                           *)
(***************************************************************************)
\* number of positions of the sequence s that satisfy Test
C14_Count(s, Test(_)) == Cardinality({k \in DOMAIN s : Test(s[k])})

\* C14: when process_files_batch returns, every file's call has run, the
\* files whose call returned are in processed_files and those whose call
\* raised are in failed_files, each as many times as it was given, so the two
\* lists together have one entry per input file
Thm_C14_EveryFileRecordedOnce ==
    pc = "batch_done" =>
        /\ Len(processed_files) + Len(failed_files) = Len(files)
        /\ \A i \in DOMAIN files : task[i] \in {"returned", "raised"}
        /\ \A f \in BatchFileNames :
              /\ C14_Count(processed_files, LAMBDA r : r.original = f)
                   = Cardinality({i \in DOMAIN files :
                                    files[i] = f /\ task[i] = "returned"})
              /\ C14_Count(failed_files, LAMBDA x : x = f)
                   = Cardinality({i \in DOMAIN files :
                                    files[i] = f /\ task[i] = "raised"})

Wit_C14_FailureBetweenSuccesses ==
    /\ pc = "batch_done"
    /\ max_workers = 2
    /\ files = <<<<"a">>, <<"a">>, <<"b">>>>
    /\ task = <<"returned", "raised", "returned">>
    /\ processed_files = <<ProcessedFile(<<"b">>), ProcessedFile(<<"a">>)>>
    /\ failed_files = <<<<"a">>>>

(***************************************************************************)
(* Further properties of the show built by generate_freeshow_file (Spec)   *)
(***************************************************************************)
\* C15: any two different entries of the unique-section list receive
\* different slide identifiers, and slides holds one record per unique
\* section
Cex_C15_SlideIdsUnique ==
    Built =>
        /\ \A i, j \in 1..Len(unique_sections) :
              i # j => unique_slide_ids[i] # unique_slide_ids[j]
        /\ Cardinality(DOMAIN slides) = Len(unique_sections)

\* the fields of the show other than its timestamps
C16_Untimed(sh) == [f \in DOMAIN sh \ {"timestamps"} |-> sh[f]]

\* C16: a second build of the same file with the same configuration gives
\* the same slide identifiers, slides, layout sequence, show identifier and
\* layout identifier as the first; only the timestamps may differ
Thm_C16_RebuildSameIds ==
    pc = "rebuilt" =>
        /\ unique_slide_ids = output[1].unique_slide_ids
        /\ slides = output[1].slides
        /\ layout_slides = output[1].layout_slides
        /\ show[1].show_id = output[1].show.show_id
        /\ show[1].layout_id = output[1].show.layout_id
        /\ C16_Untimed(show[1]) = C16_Untimed(output[1].show)

Wit_C16_RebuiltLater ==
    /\ pc = "rebuilt"
    /\ show[1].timestamps # output[1].show.timestamps
    /\ Len(layout_slides) = 2
    /\ Cardinality(DOMAIN slides) = 1

\* C17: a document without a start-of-block line gives no unique section, no
\* slide and an empty layout, and the show still carries the document's
\* directives: the key it declares, and its title (normalized) or else the
\* file name
Thm_C17_NoSectionDocument ==
    (pc = "built" /\ StartLines(input) = {}) =>
        /\ sections = <<>>
        /\ unique_sections = <<>>
        /\ DOMAIN slides = {}
        /\ layout_slides = <<>>
        /\ show[1].meta.key =
             IF \E i \in DOMAIN input : input[i] = Ln_key
             THEN <<"C">> ELSE <<>>
        /\ show[1].meta.title =
             IF \E i \in DOMAIN input : input[i] = Ln_title
             THEN <<"a", NBSP, "?">> ELSE FileName
        /\ show[1].name = show[1].meta.title
        /\ show[1].meta.number = <<>>

Wit_C17_DirectivesOnly ==
    /\ pc = "built"
    /\ input = <<Ln_key, Ln_zero, Ln_title, Ln_end>>
    /\ show[1].meta.key = <<"C">>
    /\ show[1].meta.title = <<"a", NBSP, "?">>
    /\ layout_slides = <<>>

(***************************************************************************)
(* Properties of sanitize_filename (SpecSanitize)                          *)
(***************************************************************************)
\* C18: the result of sanitize_filename is a single safe path component: not
\* empty, without a path separator, made of word characters, dots and
\* hyphens only, and neither "." nor ".."
Cex_C18_SafePathComponent ==
    pc = "sanitize_out" =>
        /\ output # <<>>
        /\ \A i \in 1..Len(output) :
              /\ output[i] # "/"
              /\ IsWordChar(output[i]) \/ output[i] \in {".", "-"}
        /\ output # <<".">>
        /\ output # <<".", ".">>

(***************************************************************************)
(* Further properties of parse_chord_line (SpecChord)                      *)
(***************************************************************************)
\* the closing brackets of the chord marks before the k-th one
C19_Before(line, k) ==
    {c \in C5_Closers(line) : c < C5_Closer(line, k)}

RECURSIVE C19_SumBracketLen(_, _)
C19_SumBracketLen(line, closers) ==
    IF closers = {} THEN 0
    ELSE LET c == Min(closers)
         IN  (2 + (c - C5_Opener(line, c) - 1))
                 + C19_SumBracketLen(line, closers \ {c})

\* C19: the offset of the k-th chord is the 0-based offset of its mark in
\* the line minus the sum of 2 + symbol length over the marks before it;
\* this is the number of characters before the mark that belong to no mark,
\* and it is not negative, so the clamp to zero changes nothing
Thm_C19_OffsetFormula ==
    ChordParsed =>
        \A k \in 1..Cardinality(C5_Closers(input)) :
            LET opener == C5_Opener(input, C5_Closer(input, k))
                adjusted == (opener - 1)
                              - C19_SumBracketLen(input, C19_Before(input, k))
            IN  /\ k <= Len(output.chords)
                /\ output.chords[k].pos = adjusted
                /\ adjusted >= 0
                /\ adjusted =
                     Cardinality({p \in 1..(opener - 1) :
                         \A c \in C5_Closers(input) :
                             p < C5_Opener(input, c) \/ p > c})

Wit_C19_SecondMarkShifted ==
    /\ ChordParsed
    /\ input = <<"a", "[", "C", "]", "a", "[", "D", "m", "]">>
    /\ Len(output.chords) = 2
    /\ output.chords[1].pos = 1
    /\ output.chords[2].pos = 2

(***************************************************************************)
(* Further properties of parse_file (Spec)                                 *)
(***************************************************************************)
\* the first start-of-block or end-of-block line after line i, or one past
\* the last line read when there is none
C20_NextBoundary(lines, i) ==
    Min({j \in StartLines(lines) \cup EndLines(lines) : j > i}
            \cup {Len(lines) + 1})

\* C20: after any prefix of the document, the sections emitted plus the open
\* one are as many as the start-of-block lines read; the k-th emitted
\* section is the block of the k-th start-of-block line, with the lines up to
\* the next start-of-block or end-of-block line, and the open section holds
\* the lines read since the last start-of-block line (none right after it)
Thm_C20_SectionsFollowStarts ==
    LET starts == StartLines(input)
    IN  /\ Len(sections) + (IF in_section THEN 1 ELSE 0) = Cardinality(starts)
        /\ \A k \in 1..Len(sections) :
              LET st == Nth(starts, k)
              IN  sections[k].content =
                      SubSeq(input, st + 1, C20_NextBoundary(input, st) - 1)
        /\ in_section =>
              /\ starts # {}
              /\ C20_NextBoundary(input, Max(starts)) = Len(input) + 1
              /\ current_section_content =
                     SubSeq(input, Max(starts) + 1, Len(input))

Wit_C20_StartWhileOpen ==
    /\ pc = "scan"
    /\ input = <<Ln_start_verse, Ln_zero, Ln_start_verse1>>
    /\ in_section
    /\ Len(sections) = 1
    /\ sections[1].content = <<Ln_zero>>
    /\ sections[1].type = T_verse
    /\ current_section_content = <<>>

(***************************************************************************)
(* Properties of the steps of parse_file (SpecBlocks)                      *)
(***************************************************************************)
\* the step reads one more line of the document
ScanStep == pc = "scan" /\ Len(input') = Len(input) + 1

\* the line read by a step of the scan
ScannedLine == input'[Len(input')]

\* C21: an end-of-block line read while no section is open changes nothing
\* of the parser; read while a section is open it appends exactly that
\* section (its name, type, ordinal and the content collected so far) and
\* leaves the parser outside any section, whatever keyword it names; the
\* directive map and the pending label stay as they are in both cases
Thm_C21_EndOfBlock ==
    [][(ScanStep /\ StartsWith(Strip(ScannedLine), P_end)) =>
          /\ metadata' = metadata
          /\ current_section_label' = current_section_label
          /\ IF in_section
             THEN /\ Len(sections') = Len(sections) + 1
                  /\ SubSeq(sections', 1, Len(sections)) = sections
                  /\ LET emitted == sections'[Len(sections')]
                     IN  /\ emitted.name = current_section_info[1].name
                         /\ emitted.type = current_section_info[1].type
                         /\ emitted.number = current_section_info[1].number
                         /\ emitted.content = current_section_content
                  /\ ~in_section'
                  /\ current_section_info' = None
                  /\ current_section_content' = <<>>
             ELSE UNCHANGED <<sections, in_section, current_section_info,
                              current_section_content>>]_vars

Wit_C21_ClosedByOtherKeyword ==
    /\ pc = "scan"
    /\ input = <<Ln_end_chorus, Ln_start_verse, Ln_zero, Ln_end_chorus>>
    /\ ~in_section
    /\ Len(sections) = 1
    /\ sections[1].type = T_verse
    /\ sections[1].content = <<Ln_zero>>

\* the directive lines of the documents that set the key "key", and the value
\* each gives it
C22_KeyLines == {Ln_key, Ln_key_d, Ln_key_bare}
C22_Value(line) ==
    IF line = Ln_key THEN <<"C">> ELSE IF line = Ln_key_d THEN <<"D">> ELSE <<>>

\* C22: a generic directive line is recorded in the directive map whether or
\* not a section is open, leaving the other keys alone, and is appended to
\* the content of the open section if there is one; it emits, opens and
\* closes nothing.  After every line the map holds, for the key, the value of
\* the last directive line of the document read so far that sets it
Thm_C22_DirectiveRecorded ==
    [][ScanStep =>
          /\ ScannedLine \in C22_KeyLines =>
                /\ DOMAIN metadata' = DOMAIN metadata \cup {K_key}
                /\ metadata'[K_key] = C22_Value(ScannedLine)
                /\ \A k \in DOMAIN metadata \ {K_key} :
                      metadata'[k] = metadata[k]
                /\ current_section_content' =
                      IF in_section
                      THEN Append(current_section_content, ScannedLine)
                      ELSE current_section_content
                /\ UNCHANGED <<sections, in_section, current_section_info,
                               current_section_label>>
          /\ LET set == {i \in DOMAIN input' : input'[i] \in C22_KeyLines}
             IN  IF set = {} THEN K_key \notin DOMAIN metadata'
                 ELSE /\ K_key \in DOMAIN metadata'
                      /\ metadata'[K_key] = C22_Value(input'[Max(set)])]_vars

Wit_C22_KeySetThreeTimes ==
    /\ pc = "scan"
    /\ input = <<Ln_key, Ln_start_verse, Ln_key_bare, Ln_key_d>>
    /\ metadata[K_key] = <<"D">>
    /\ in_section
    /\ current_section_content = <<Ln_key_bare, Ln_key_d>>

\* C23: a comment-label line read while a section is open is appended as it
\* is to the content of that section; no section is emitted, the section
\* stays open and keeps the name, type and ordinal it was opened with
Thm_C23_LabelInsideSection ==
    [][(/\ ScanStep
        /\ in_section
        /\ StartsWith(Strip(ScannedLine), P_comment)) =>
          /\ current_section_content' =
                Append(current_section_content, ScannedLine)
          /\ sections' = sections
          /\ in_section'
          /\ current_section_info' = current_section_info
          /\ metadata' = metadata]_vars

Wit_C23_LabelKeptInContent ==
    /\ pc = "scan"
    /\ input = <<Ln_start_verse, Ln_zero, Ln_label_pont>>
    /\ in_section
    /\ sections = <<>>
    /\ current_section_content = <<Ln_zero, Ln_label_pont>>
    /\ current_section_info[1].name = <<"V", "e", "r", "s", "e">>
    /\ current_section_info[1].type = T_verse

\* the label text of the comment-label lines of the documents
C24_LabelText(line) ==
    IF line = Ln_label THEN <<"R","e","f","r","a","i","n"," ","2">>
    ELSE <<"P","o","n","t">>

\* the comment-label lines read since the last start-of-block line
C24_LabelsSinceStart(lines) ==
    {i \in (Max({0} \cup StartLines(lines)) + 1)..Len(lines) :
        StartsWith(Strip(lines[i]), P_comment)}

\* C24: every start-of-block line leaves the pending label empty; the
\* section it opens is resolved with the last comment-label line read since
\* the previous start-of-block line, which gives it its name, and with no
\* label (name: the title-cased keyword, type: the keyword, no ordinal) when
\* there was none, so a comment-label line names at most one section
Thm_C24_PendingLabel ==
    [][(ScanStep /\ StartsWith(Strip(ScannedLine), P_start)) =>
          /\ current_section_label' = None
          /\ in_section'
          /\ LET labels == C24_LabelsSinceStart(input)
             IN  IF labels = {}
                 THEN /\ current_section_label = None
                      /\ current_section_info' =
                            Some([name |-> <<"V","e","r","s","e">>,
                                  type |-> T_verse, number |-> None])
                 ELSE LET text == C24_LabelText(input[Max(labels)])
                      IN  /\ current_section_label = Some(text)
                          /\ current_section_info'[1].name = text
                          /\ current_section_info' =
                                Some(parse_section_info(T_verse, Some(text)))
         ]_vars

Wit_C24_LastLabelUsedOnce ==
    /\ pc = "scan"
    /\ input = <<Ln_label, Ln_label_pont, Ln_start_verse, Ln_start_verse>>
    /\ current_section_label = None
    /\ Len(sections) = 1
    /\ sections[1].name = <<"P","o","n","t">>
    /\ current_section_info[1].name = <<"V","e","r","s","e">>

(***************************************************************************)
(* Properties of _create_freeshow_slide (SpecSlide)                        *)
(***************************************************************************)
\* the content lines of a section that are neither comment-label lines nor
\* blank
C25_Shown(content) ==
    {i \in DOMAIN content :
        /\ ~StartsWith(Strip(content[i]), P_comment)
        /\ \E p \in DOMAIN content[i] : ~IsSpace(content[i][p])}

\* C25: the lines of the slide built for a section are the renderings of its
\* content lines that are neither comment-label lines nor blank, one per
\* such line and in content order
Thm_C25_SlideLines ==
    pc = "slide_out" =>
        LET shown == C25_Shown(input.content)
        IN  /\ Len(output.lines) = Cardinality(shown)
            /\ \A k \in 1..Len(output.lines) :
                  LET parsed == parse_chord_line(input.content[Nth(shown, k)])
                  IN  /\ output.lines[k].text =
                            fix_french_punctuation(parsed.text)
                      /\ output.lines[k].chords = parsed.chords

Wit_C25_CommentAndBlankSkipped ==
    /\ pc = "slide_out"
    /\ input.content = <<Ln_comment_y, Ln_chords, Ln_space>>
    /\ Len(output.lines) = 1
    /\ output.lines[1].text = <<"a", NBSP, "!">>
    /\ output.lines[1].chords[1].key = <<"C">>

\* C26: in every line of a slide record each chord position lies between 0
\* and the length of the line's final text
Cex_C26_ChordPosWithinText ==
    pc = "slide_out" =>
        \A k \in 1..Len(output.lines) :
            \A c \in 1..Len(output.lines[k].chords) :
                /\ output.lines[k].chords[c].pos >= 0
                /\ output.lines[k].chords[c].pos <= Len(output.lines[k].text)

(***************************************************************************)
(* Chord identifiers (SpecChordId)                                         *)
(***************************************************************************)
\* C27: two chord marks of one line that differ in symbol or in original
\* offset have different identifiers
Cex_C27_ChordIdsDistinguishMarks ==
    pc = "chord_out" =>
        LET ms == FindIter(input, 1)
        IN  \A i, j \in 1..Len(output.chords) :
                (ms[i].group1 # ms[j].group1 \/ ms[i].start # ms[j].start)
                    => output.chords[i].id # output.chords[j].id

(***************************************************************************)
(* The enhance step and the pipeline of one document (SpecPipeline)        *)
(***************************************************************************)
\* C28: the sections parsed from the enhanced file are as many as the
\* sections of the original document and have, position by position, the
\* same canonical type
Cex_C28_EnhanceKeepsSectionTypes ==
    [][(pc = "enhanced" /\ pc' = "built") =>
          /\ Len(sections') = Len(sections)
          /\ \A k \in 1..Len(sections) : sections'[k].type = sections[k].type
      ]_vars

\* the label pending when the k-th start-of-block line of a document is read
C29_LabelBefore(lines, k) ==
    ParseLines(ParseStart, SubSeq(lines, 1, Nth(StartLines(lines), k) - 1))
        .current_section_label

\* C29: after enhance_chordpro and generate_freeshow_file, the slide of a
\* first-seen section whose label was supplied by a comment-label line has the
\* label text as its group, and the slide of a first-seen section without a
\* label has the title-cased keyword
Cex_C29_LabelKeptAsGroup ==
    [][(pc = "enhanced" /\ pc' = "built") =>
          \A k \in 1..Len(sections) :
              LET label == C29_LabelBefore(input, k)
                  first == Min({j \in 1..Len(index_map') :
                                   index_map'[j] = index_map'[k]})
                  group == slides'[layout_slides'[k]].group
              IN  (k <= Len(index_map') /\ first = k) =>
                      IF label # None /\ label[1] # <<>>
                      THEN group = label[1]
                      ELSE group = Title(sections[k].type)
      ]_vars

(***************************************************************************)
(* The retry loop of the network operations (SpecNetLive)                  *)
(***************************************************************************)
\* the positions of net_log that are requests
C30_Requests == {i \in 1..Len(net_log) : net_log[i] # "sleep"}

C30_Retryable == {"HTTPError", "URLError"}

\* what the log and the result of a call may be
C30_RetryDiscipline ==
    LET n == Len(net_log)
    IN  /\ Cardinality(C30_Requests) <= max_retries
        \* a wait follows an HTTP or URL error of an attempt that is not the
        \* last one allowed
        /\ \A i \in 1..n :
              net_log[i] = "sleep" =>
                  /\ i > 1
                  /\ net_log[i - 1] \in C30_Retryable
                  /\ Cardinality({j \in C30_Requests : j < i}) < max_retries
        \* a request is followed by nothing but a wait, and a success or
        \* another error by nothing at all
        /\ \A i \in 1..n :
              net_log[i] # "sleep" =>
                  /\ i < n => net_log[i + 1] = "sleep"
                  /\ net_log[i] \notin C30_Retryable => (i = n /\ pc = "net_done")
        /\ pc # "net_done" => net_result = None
        /\ pc = "net_done" =>
              /\ n > 0 => net_log[n] # "sleep"
              /\ n = 0 => max_retries = 0
              /\ (n > 0 /\ net_log[n] \in C30_Retryable) =>
                    Cardinality(C30_Requests) = max_retries
              /\ net_result =
                    Some(IF n > 0 /\ net_log[n] = "ok"
                         THEN SuccessValue(net_op) ELSE FailureValue(net_op))

\* C30: a network operation returns after at most max_retries requests; it
\* waits only after an HTTP or URL error of an attempt that is not the last,
\* stops at the first success and at any other error, does not wait after
\* its last attempt and returns its failure value when it has not succeeded
Thm_C30_RetryLoopTerminates ==
    /\ []C30_RetryDiscipline
    /\ <>(pc = "net_done")

Wit_C30_ExhaustedAfterThreeRequests ==
    /\ pc = "net_done"
    /\ net_op = "download_file"
    /\ max_retries = 3
    /\ net_log = <<"HTTPError", "sleep", "URLError", "sleep", "HTTPError">>
    /\ net_result = Some("no path")

====
